---- MODULE Spec2Model ----
(***************************************************************************)
(* hydrallm: the retry/fallback transport (RetryTransport.RoundTrip).      *)
(*                                                                         *)
(* One RoundTrip call over a model chain is modelled as a state machine.   *)
(* The program suspends at two places only: inside client.Do (upstream     *)
(* I/O) and inside wait (select on ctx.Done / time.After).  Each action is *)
(* the code that runs between two suspension points; the top of the        *)
(* innermost loop is kept as a position of its own so that a cancellation  *)
(* of the caller's context can fall between two attempts.                  *)
(***************************************************************************)
EXTENDS Integers, Sequences, FiniteSets, TLC

(***************************************************************************)
(* Bounds of the model                                                     *)
(***************************************************************************)
MaxModels == 2        \* longest model chain
MaxAttemptsCfg == 2   \* largest model.Attempts
MaxCyclesCfg == 2     \* largest retry.MaxCycles

\* retry.MaxCycles as configured: negative and zero included
\* (applyDefaults only replaces zero, the tests build RetryConfig directly).
RetryMaxCyclesValues == (-1)..MaxCyclesCfg

ProviderIds == {"p1"}

\* HTTP statuses the upstream answers with: both sides of every boundary
\* of the classification (400, 429, 500).
Statuses == {200, 399, 400, 499, 429, 500}

\* An inbound request: the features that isStreamingRequest looks at, the
\* length of its body, the body as JSON, and what the rewriting of an
\* attempt works on (URL, Host, headers).
PlainRequest ==
  [pathHasStream |-> FALSE, acceptHasSSE |-> FALSE, bodyStreamTrue |-> FALSE,
   bodyLen |-> 2,
   json |-> [kind |-> "object", fields |-> <<>>],
   url |-> [scheme |-> "http", host |-> "localhost", path |-> <<"/", "a">>,
            query |-> ""],
   host |-> "localhost",
   headers |-> [Authorization |-> <<"Bearer", <<"client">>>>,
                XApiKey |-> <<>>, AnthropicVersion |-> <<>>,
                ContentType |-> <<>>, XAmzDate |-> <<>>,
                XAmzSecurityToken |-> <<>>]]

RequestSamples ==
  { PlainRequest,
    [PlainRequest EXCEPT !.acceptHasSSE = TRUE],
    [PlainRequest EXCEPT
       !.bodyStreamTrue = TRUE,
       !.json.fields = <<[key |-> "stream", val |-> "true"]>>] }

\* One model of a chain: its provider id, attempts and interval, the name
\* the upstream knows it by and its dialect.
ModelBindings ==
  [provider : ProviderIds, attempts : 1..MaxAttemptsCfg, interval : {0},
   model : {"gpt"}, type : {"openai"}]

\* Model chains of a validated listener: non-empty, attempts >= 1.
ModelChains == UNION { [1..n -> ModelBindings] : n \in 1..MaxModels }

\* Model chains as newRetryTransport accepts them: any slice, also empty,
\* also with attempts <= 0 (a range over a non-positive count runs no
\* iteration).
RawModelChains ==
  UNION { [1..n -> [provider : ProviderIds, attempts : (-1)..MaxAttemptsCfg,
                    interval : {0}, model : {"gpt"}, type : {"openai"}]] :
            n \in 0..MaxModels }

VARIABLES
  models,            \* t.models
  providers,         \* t.providers
  retry,             \* t.retry
  logConfig,         \* t.logConfig
  req,               \* the inbound request
  ctxErr,            \* ctx.Err() of the caller's context
  pc,                \* position of RoundTrip: start, top, inflight, wait, done
  pos,               \* <<cycle, modelIdx, attempt>> of the loop nest
  isStreaming,       \* local isStreaming
  maxCycles,         \* local maxCycles
  totalAttempts,     \* local totalAttempts
  lastErr,           \* local lastErr
  lastResp,          \* local lastResp
  result,            \* (resp, err) returned by RoundTrip
  returnedAt,        \* source line of the return statement taken (0: none)
  upstreamCalls,     \* number of client.Do dispatches
  waits,             \* number of calls of wait
  lastOutcome,       \* what the latest tryModel returned, and for which attempt
  allRetryable,      \* every tryModel so far returned a retryable status
  abortedAttempt,    \* totalAttempts of the attempt the ctx aborted in flight
  cancelledAt,       \* where RoundTrip was when the caller's context fired
  callerRead,        \* what the caller got when reading the returned body
  fn,                \* a helper function under evaluation: op, arg, out, done
  upstream,          \* the response bodies the upstream answers with
  body,              \* length of the buffered request body (local body)
  waitDuration,      \* waitDuration of the latest wait
  answer,            \* what the reverse proxy answered the client with
  buffered,          \* the bytes of the buffered request body (local body)
  sent,              \* the request handed to client.Do by the latest attempt
  inFlight,          \* calls of client.Do that have not returned
  openBodies,        \* response bodies received and not closed by RoundTrip
  other,             \* the locals of a second RoundTrip call on the transport
  turn               \* which of the two calls the variables above belong to

vars == <<models, providers, retry, logConfig, req, ctxErr, pc, pos,
          isStreaming, maxCycles, totalAttempts, lastErr, lastResp, result,
          returnedAt, upstreamCalls, waits, lastOutcome, allRetryable,
          abortedAttempt, cancelledAt, callerRead, fn, upstream, body,
          waitDuration, answer, buffered, sent, inFlight, openBodies, other,
          turn>>

\* What RoundTrip never writes.
config == <<models, providers, retry, logConfig, fn, upstream, answer, other,
            turn>>

(***************************************************************************)
(* Values                                                                  *)
(***************************************************************************)
\* A response: status, whether the transport read from its body, what its
\* Body is (upstream, closed, memory), whether the context of its request is
\* done, its Content-Encoding, the length of the body the upstream sent
\* (upLen) and of its decoded form (plainLen), and what a reader of Body
\* gets: which bytes and how many.
NoResp == [status |-> 0, read |-> FALSE, body |-> "none", reqCtxDone |-> FALSE,
           enc |-> "none", upLen |-> 0, plainLen |-> 0, bytes |-> "none",
           len |-> 0]

NoResult == [resp |-> NoResp, err |-> "none"]

NoOutcome == [attempt |-> 0, status |-> 0]

End == <<-1, -1, -1>>

\* There is no second call.
NoCall == [pc |-> "none"]

\* No request has been handed to client.Do yet.
NoRequest == [json |-> [kind |-> "nil", fields |-> <<>>],
              url |-> [scheme |-> "", host |-> "", path |-> <<>>,
                       query |-> ""],
              host |-> "", headers |-> <<>>]

\* The reverse proxy has not written a status line yet.
NoAnswer == [status |-> 0, text |-> <<>>]

\* No helper function is under evaluation.
FnIdle == [op |-> "none", arg |-> 0, out |-> 0, done |-> FALSE]

Max(a, b) == IF a >= b THEN a ELSE b

(***************************************************************************)
(* Pure functions of the transport                                         *)
(***************************************************************************)

\* isStreamingRequest: path hint, Accept header, or body stream flag.
isStreamingRequest(r) ==
  r.pathHasStream \/ r.acceptHasSSE \/ r.bodyStreamTrue

isRetryable_All4xx(statusCode) == statusCode >= 400

isRetryable_From300(statusCode) == statusCode >= 300 \/ statusCode = 429

\* isRetryable: statusCode >= 500 || statusCode == 429
isRetryable(statusCode) == statusCode >= 500 \/ statusCode = 429

EffectiveMaxCycles_Raw(n) == n

\* maxCycles := max(t.retry.MaxCycles, 1)
EffectiveMaxCycles(n) == Max(n, 1)

shouldWait_Always(cycle, modelIdx, attempt, numModels, modelAttempts, mc) ==
  TRUE

shouldWait_Never(cycle, modelIdx, attempt, numModels, modelAttempts, mc) ==
  FALSE

\* shouldWait: false only for the last attempt of the last model in the
\* last cycle.
shouldWait(cycle, modelIdx, attempt, numModels, modelAttempts, mc) ==
  ~(cycle = mc - 1 /\ modelIdx = numModels - 1 /\ attempt = modelAttempts - 1)

\* Lexicographic order of loop positions <<cycle, modelIdx, attempt>>.
Less(p, q) ==
  \/ p[1] < q[1]
  \/ p[1] = q[1] /\ p[2] < q[2]
  \/ p[1] = q[1] /\ p[2] = q[2] /\ p[3] < q[3]

\* The iterations of the three nested range loops: cycle in [0, mc),
\* modelIdx over t.models, attempt in [0, model.Attempts).
LoopPositions(ms, mc) ==
  { p \in (0..(mc - 1)) \X (0..(Len(ms) - 1)) \X (0..(MaxAttemptsCfg + 1)) :
      p[3] < ms[p[2] + 1].attempts }

Least(S) == IF S = {} THEN End
            ELSE CHOOSE p \in S : \A q \in S : q = p \/ Less(p, q)

FirstPos(ms, mc) == Least(LoopPositions(ms, mc))

NextPos_Wrap(ms, mc, p) ==
  LET S == { q \in LoopPositions(ms, mc) : Less(p, q) }
  IN  IF S = {} THEN FirstPos(ms, mc) ELSE Least(S)

NextPos_SkipModelRetries(ms, mc, p) ==
  Least({ q \in LoopPositions(ms, mc) : Less(p, q) /\ q[3] = 0 })

\* The iteration that follows p (continue), End when the loops are over.
NextPos(ms, mc, p) ==
  Least({ q \in LoopPositions(ms, mc) : Less(p, q) })

FinalResult_ErrFirst(lr, le) ==
  IF le # "none" THEN [resp |-> NoResp, err |-> le]
  ELSE IF lr # NoResp THEN [resp |-> lr, err |-> "none"]
  ELSE [resp |-> NoResp, err |-> "exhausted"]

FinalResult_FixedError(lr, le) ==
  IF lr # NoResp THEN [resp |-> lr, err |-> "none"]
  ELSE [resp |-> NoResp, err |-> "exhausted"]

\* After the loops: lastResp if any, else lastErr, else the fixed error.
FinalResult(lr, le) ==
  IF lr # NoResp THEN [resp |-> lr, err |-> "none"]
  ELSE IF le # "none" THEN [resp |-> NoResp, err |-> le]
  ELSE [resp |-> NoResp, err |-> "exhausted"]

FinalLine(lr, le) ==
  IF lr # NoResp THEN 474 ELSE IF le # "none" THEN 477 ELSE 479

ContextDone_Never(e) == FALSE

\* ctx.Err() != nil
ContextDone(e) == e # "none"

CtxCheckResult_PreferLast(lr, le, e) ==
  IF lr # NoResp THEN [resp |-> lr, err |-> "none"]
  ELSE [resp |-> NoResp, err |-> e]

\* if err = ctx.Err(); err != nil { return nil, err }
CtxCheckResult(lr, le, e) == [resp |-> NoResp, err |-> e]

AttemptContextDone_Kept(streaming) == FALSE

\* tryModel: for a non-streaming attempt the per-attempt context is
\* cancelled by the deferred cancel() when tryModel returns.
AttemptContextDone(streaming) == ~streaming

\* The response as client.Do hands it to tryModel's caller, b being the
\* body the upstream sent.
ReceivedResponse(s, b, streaming) ==
  [status |-> s, read |-> FALSE, body |-> "upstream",
   reqCtxDone |-> AttemptContextDone(streaming),
   enc |-> b.enc, upLen |-> b.len, plainLen |-> b.plainLen,
   bytes |-> "upstream", len |-> b.len]

\* 1 for a response whose upstream body RoundTrip has not closed.
Unclosed(r) == IF r.body = "upstream" THEN 1 ELSE 0

handleRetryableResponse_LeftOpen(r, includeErrorBody) ==
  IF includeErrorBody
  THEN [r EXCEPT !.read = TRUE, !.body = "closed", !.bytes = "none", !.len = 0]
  ELSE [r EXCEPT !.read = TRUE]

\* handleRetryableResponse: the body is read (bounded or drained) and closed
\* in both branches.
handleRetryableResponse(r, includeErrorBody) ==
  [r EXCEPT !.read = TRUE, !.body = "closed", !.bytes = "none", !.len = 0]

\* const maxBodySize = 100 * 1024 * 1024
MaxBodySize == 100 * 1024 * 1024

Min(a, b) == IF a <= b THEN a ELSE b

\* readErrorBody: io.LimitReader(reader, 4*1024)
ErrorBodyLimit == 4 * 1024

readErrorBody_Unbounded(r) ==
  IF r.enc = "gzip" THEN [bytes |-> "decoded", len |-> r.plainLen]
  ELSE IF r.enc = "badgzip" THEN [bytes |-> "empty", len |-> 0]
  ELSE [bytes |-> "upstream", len |-> r.upLen]

\* readErrorBody: at most 4 KiB of the body, of its decoded form when
\* Content-Encoding is gzip; nil when gzip.NewReader fails.
readErrorBody(r) ==
  IF r.enc = "gzip"
  THEN [bytes |-> "decoded", len |-> Min(r.plainLen, ErrorBodyLimit)]
  ELSE IF r.enc = "badgzip" THEN [bytes |-> "empty", len |-> 0]
  ELSE [bytes |-> "upstream", len |-> Min(r.upLen, ErrorBodyLimit)]

\* handleErrorResponse: with IncludeErrorBody the body is read, closed and
\* replaced by an in-memory reader over the bytes read; otherwise it is
\* left alone.
handleErrorResponse(r, includeErrorBody) ==
  IF includeErrorBody
  THEN [r EXCEPT !.read = TRUE, !.body = "memory",
                 !.bytes = readErrorBody(r).bytes,
                 !.len = readErrorBody(r).len]
  ELSE r

MaxDuration == 2      \* largest configured duration (interval, timeout)

\* Durations as configured: negative and zero included.
DurationValues == (-1)..MaxDuration

\* HTTP status codes
StatusCodes == 100..599

\* applyDefaults: c.Retry.DefaultTimeout = 30 * time.Second
DefaultTimeoutSeconds == 30

Classify_TerminalFrom500(statusCode) ==
  IF statusCode = 429 THEN "retryable"
  ELSE IF statusCode >= 400 THEN "client_error"
  ELSE "success"

\* RoundTrip, lines 446-468: what is done with a response of that status.
Classify(statusCode) ==
  IF isRetryable(statusCode) THEN "retryable"
  ELSE IF statusCode >= 400 THEN "client_error"
  ELSE "success"

GetInterval_ZeroCounts(m, provider, defaultInterval) ==
  IF m.interval >= 0 THEN m.interval
  ELSE IF provider.interval >= 0 THEN provider.interval
  ELSE defaultInterval

\* Model.GetInterval
GetInterval(m, provider, defaultInterval) ==
  IF m.interval > 0 THEN m.interval
  ELSE IF provider.interval > 0 THEN provider.interval
  ELSE defaultInterval

\* applyDefaults: if c.Retry.DefaultTimeout == 0 { ... = 30 * time.Second }
DefaultedRetryTimeout(configured) ==
  IF configured = 0 THEN DefaultTimeoutSeconds ELSE configured

\* Config.validate: if m.Timeout == 0 { m.Timeout = c.Retry.DefaultTimeout }
ValidatedModelTimeout(configured, defaultTimeout) ==
  IF configured = 0 THEN defaultTimeout ELSE configured

\* tryModel: context.WithTimeout(ctx, model.Timeout) over the model binding
\* that loadConfig (applyDefaults, then validate) produced.
AppliedTimeout(modelTimeout, retryDefaultTimeout) ==
  ValidatedModelTimeout(modelTimeout,
                        DefaultedRetryTimeout(retryDefaultTimeout))

WaitDuration_ZeroBased(interval, n, exponentialBackoff) ==
  IF exponentialBackoff THEN interval * (n - 1) ELSE interval

\* wait: waitDuration of the select, n being totalAttempts
WaitDuration(interval, n, exponentialBackoff) ==
  IF exponentialBackoff THEN interval * n ELSE interval

\* io.ReadAll(io.LimitReader(req.Body, maxBodySize)): the length of the
\* buffered body; the limit reader ends the read at the cap without error.
BufferBody(bodyLen) == Min(bodyLen, MaxBodySize)

\* The bytes buffered: the whole body, or its first maxBodySize bytes.
BufferBytes(r) ==
  IF r.bodyLen <= MaxBodySize THEN r.json
  ELSE [kind |-> "truncated", fields |-> r.json.fields]

\* provider := t.providers[model.Provider]: the zero Provider when missing
ProviderOf(ps, id) ==
  IF id \in DOMAIN ps THEN ps[id] ELSE [interval |-> 0]

MaxPathLen == 4       \* longest inbound request path, in characters

\* Paths are sequences of characters; these are the characters that matter
\* to the rewriting: the separator, the letter v, a digit, another letter.
PathChars == {"/", "v", "1", "a"}

Digits == {"1"}

RECURSIVE TrimRight(_)
\* strings.TrimRight(path, "/")
TrimRight(path) ==
  IF path # <<>> /\ path[Len(path)] = "/"
  THEN TrimRight(SubSeq(path, 1, Len(path) - 1))
  ELSE path

RECURSIVE DigitRun(_, _)
\* The number of digits of path from index i on: the greedy \d+.
DigitRun(path, i) ==
  IF i <= Len(path) /\ path[i] \in Digits THEN 1 + DigitRun(path, i + 1)
  ELSE 0

\* versionPrefixRegex.ReplaceAllString(reqPath, ""), the regex being ^/v\d+
ReplaceVersionPrefix(path) ==
  IF Len(path) >= 3 /\ path[1] = "/" /\ path[2] = "v" /\ path[3] \in Digits
  THEN SubSeq(path, 3 + DigitRun(path, 3), Len(path))
  ELSE path

ValidatedURL_Untrimmed(u) == u

\* Config.validate on a provider URL: the path loses its trailing slashes.
ValidatedURL(u) == [u EXCEPT !.path = TrimRight(u.path)]

\* buildTargetURL: the URL and the Host of the outgoing request.
buildTargetURL(originalURL, provider) ==
  LET targetURL == provider.ParsedURL
      reqPath == IF provider.StripVersionPrefix
                 THEN ReplaceVersionPrefix(originalURL.path)
                 ELSE originalURL.path
      basePath == TrimRight(targetURL.path)
  IN  [scheme |-> targetURL.scheme,
       host |-> targetURL.host,
       path |-> basePath \o reqPath,
       query |-> originalURL.query,
       hostHeader |-> targetURL.host]

\* strings.Contains over sequences of tokens
Contains(s, sub) ==
  \E i \in 1..(Len(s) - Len(sub) + 1) : SubSeq(s, i, i + Len(sub) - 1) = sub

\* isStreamingRequest: strings.Contains(path, "-stream") ||
\* strings.Contains(path, "/stream")
PathHasStream(path) ==
  Contains(path, <<"-", "stream">>) \/ Contains(path, <<"/", "stream">>)

\* http.Header.Get: the first value of the header, "" when there is none
HeaderGet(values) == IF values = <<>> THEN <<>> ELSE values[1]

\* isStreamingRequest: strings.Contains(req.Header.Get("Accept"),
\* "text/event-stream")
AcceptHasSSE(accept) == Contains(HeaderGet(accept), <<"text/event-stream">>)

\* encoding/json matches an object key to the field tagged "stream"
\* exactly or, failing that, without regard to case.
MatchesStreamField(key) == key \in {"stream", "Stream", "STREAM"}

RECURSIVE UnmarshalFields(_, _, _)
\* json.Unmarshal of an object into struct{ Stream bool `json:"stream"` }:
\* the fields in their order; true and false are stored, null is skipped,
\* a value of another type is a type error that json reports at the end.
UnmarshalFields(fields, i, acc) ==
  IF i > Len(fields) THEN acc
  ELSE LET f == fields[i]
       IN  UnmarshalFields(fields, i + 1,
             IF ~MatchesStreamField(f.key) \/ f.val = "null" THEN acc
             ELSE IF f.val \in {"true", "false"}
                  THEN [acc EXCEPT !.Stream = (f.val = "true")]
             ELSE [acc EXCEPT !.err = TRUE])

\* json.Unmarshal(body, &reqBody): an error for a nil, empty or non-JSON
\* body and for a JSON value that is not an object.
Unmarshal(jsonBody) ==
  IF jsonBody.kind = "object"
  THEN UnmarshalFields(jsonBody.fields, 1, [Stream |-> FALSE, err |-> FALSE])
  ELSE [Stream |-> FALSE, err |-> TRUE]

\* isStreamingRequest: err == nil && reqBody.Stream
BodyStreamTrue(jsonBody) ==
  ~Unmarshal(jsonBody).err /\ Unmarshal(jsonBody).Stream

\* The index of the first field of that key, 0 when there is none.
FirstField(fields, key) ==
  IF \E i \in DOMAIN fields : fields[i].key = key
  THEN CHOOSE i \in DOMAIN fields :
         /\ fields[i].key = key
         /\ \A j \in 1..(i - 1) : fields[j].key # key
  ELSE 0

setModel_Appends(jsonBody, model) ==
  [err |-> FALSE,
   body |-> [kind |-> "object",
             fields |-> Append(jsonBody.fields,
                               [key |-> "model", val |-> model])]]

\* setModel: sjson.SetBytes(body, "model", model). An empty body becomes
\* the object holding the field; in an object the value of the first
\* top-level model field is replaced, and a field is added at the end
\* when there is none.
\* For a body that sjson refuses, (nil, err) is returned.
setModel(jsonBody, model) ==
  LET i == FirstField(jsonBody.fields, "model")
  IN  IF jsonBody.kind = "refused"
      THEN [err |-> TRUE, body |-> [kind |-> "nil", fields |-> <<>>]]
      ELSE
      [err |-> FALSE,
       body |-> [kind |-> IF jsonBody.kind \in {"nil", "empty"}
                          THEN "object" ELSE jsonBody.kind,
                 fields |-> IF jsonBody.kind \in {"nil", "empty"}
                            THEN <<[key |-> "model", val |-> model]>>
                            ELSE IF i > 0
                            THEN [jsonBody.fields EXCEPT ![i].val = model]
                            ELSE Append(jsonBody.fields,
                                        [key |-> "model", val |-> model])]]

\* client.Do is called with a request.
Dispatch(n) == n + 1

DoReturns_StillPending(n) == n

\* client.Do is synchronous: when it returns, with a response or an error,
\* its request is no longer in flight.
DoReturns(n) == n - 1

tryModelError_LookupOnly(ps, model, jsonBody) ==
  IF model.provider \notin DOMAIN ps THEN "provider_not_found" ELSE "none"

\* tryModel before the request is cloned: the error it returns for a
\* provider id that is not in the map or a model override that failed,
\* "none" when it goes on to dispatch.
tryModelError(ps, model, jsonBody) ==
  IF model.provider \notin DOMAIN ps THEN "provider_not_found"
  ELSE IF setModel(jsonBody, model.model).err THEN "set_model"
  ELSE "none"

\* A string of the configuration or of the environment is the sequence of
\* its tokens, "$" being a token of its own; the empty string is <<>>.
Str(t) == IF t = "" THEN <<>> ELSE <<t>>

\* The string $NAME
EnvRef(name) == <<"$">> \o Str(name)

\* os.Getenv: "" for a variable that is not set
Getenv(env, name) == IF name \in DOMAIN env THEN env[name] ELSE <<>>

resolveEnvOrValue_EmptyWins(v, env) ==
  IF v = <<>> THEN <<>>
  ELSE IF Len(v) > 1 /\ v[1] = "$" THEN Getenv(env, Tail(v))
  ELSE v

\* resolveEnvOrValue: "" for ""; for a string longer than one character
\* that starts with $, the value of the variable named by the rest when it
\* is not empty; the input itself otherwise.
resolveEnvOrValue(v, env) ==
  IF v = <<>> THEN <<>>
  ELSE IF Len(v) > 1 /\ v[1] = "$" /\ Getenv(env, Tail(v)) # <<>>
  THEN Getenv(env, Tail(v))
  ELSE v

\* A header is the sequence of the parts of its value, empty when absent.
Absent == <<>>

signAWSRequest_Always(headers, provider, env) ==
  [headers EXCEPT
     !.ContentType = IF @ = Absent THEN <<"application/json">> ELSE @,
     !.Authorization =
        <<"AWS4-HMAC-SHA256", resolveEnvOrValue(provider.AWSAccessKeyID, env)>>,
     !.XAmzDate = <<"now">>]

\* signAWSRequest: nothing without a configured access key id, nor when the
\* static credentials cannot be retrieved (an empty key or secret);
\* otherwise Content-Type is defaulted and the request is signed for the
\* service bedrock, which sets Authorization, X-Amz-Date and, with a
\* session token, X-Amz-Security-Token.
signAWSRequest(headers, provider, env) ==
  LET accessKeyID == resolveEnvOrValue(provider.AWSAccessKeyID, env)
      secretAccessKey == resolveEnvOrValue(provider.AWSSecretAccessKey, env)
      sessionToken == resolveEnvOrValue(provider.AWSSessionToken, env)
  IN  IF provider.AWSAccessKeyID = Str("") THEN headers
      ELSE IF accessKeyID = Str("") \/ secretAccessKey = Str("") THEN headers
      ELSE [headers EXCEPT
              !.ContentType = IF @ = Absent THEN <<"application/json">>
                              ELSE @,
              !.Authorization = <<"AWS4-HMAC-SHA256", accessKeyID>>,
              !.XAmzDate = <<"now">>,
              !.XAmzSecurityToken = IF sessionToken = Str("") THEN @
                                    ELSE <<sessionToken>>]

setAuthHeaders_EmptyDeletes(headers, modelType, provider, env) ==
  LET apiKey == resolveEnvOrValue(provider.APIKey, env)
  IN  IF modelType = "anthropic"
      THEN [headers EXCEPT
              !.XApiKey = IF apiKey \in {Str("-"), Str("")} THEN Absent
                          ELSE <<apiKey>>,
              !.AnthropicVersion = <<"2023-06-01">>]
      ELSE IF modelType = "bedrock"
      THEN signAWSRequest(headers, provider, env)
      ELSE [headers EXCEPT
              !.Authorization = IF apiKey \in {Str("-"), Str("")} THEN Absent
                                ELSE <<"Bearer", apiKey>>]

\* setAuthHeaders: the headers of the outgoing request.
setAuthHeaders(headers, modelType, provider, env) ==
  LET apiKey == resolveEnvOrValue(provider.APIKey, env)
  IN  IF modelType = "anthropic"
      THEN [headers EXCEPT
              !.XApiKey = IF apiKey = Str("-") THEN Absent
                          ELSE IF apiKey # Str("") THEN <<apiKey>>
                          ELSE @,
              !.AnthropicVersion = <<"2023-06-01">>]
      ELSE IF modelType = "bedrock"
      THEN signAWSRequest(headers, provider, env)
      ELSE [headers EXCEPT
              !.Authorization = IF apiKey = Str("-") THEN Absent
                                ELSE IF apiKey # Str("") THEN <<"Bearer", apiKey>>
                                ELSE @]

tryModelRewrite_InPlace(originalReq, buf, model, provider, env) ==
  LET target == buildTargetURL(originalReq.url, provider)
      newBody == setModel(buf, model.model).body
      rewritten == [json |-> newBody,
                    url |-> [scheme |-> target.scheme, host |-> target.host,
                             path |-> target.path, query |-> target.query],
                    host |-> target.hostHeader,
                    headers |-> setAuthHeaders(originalReq.headers, model.type,
                                               provider, env)]
  IN  [originalReq |-> [originalReq EXCEPT !.url = rewritten.url,
                                           !.host = rewritten.host,
                                           !.headers = rewritten.headers],
       body |-> newBody,
       newReq |-> rewritten]

\* tryModel from setModel to the request handed to client.Do: the model
\* is set in a new slice, the request is cloned (headers and URL are
\* copied), and the body, URL, Host and headers of the clone are written.
\* What is returned is the original request and the buffered body as they
\* are afterwards, and the clone.
tryModelRewrite(originalReq, buf, model, provider, env) ==
  LET target == buildTargetURL(originalReq.url, provider)
  IN  [originalReq |-> originalReq,
       body |-> buf,
       newReq |-> [json |-> setModel(buf, model.model).body,
                   url |-> [scheme |-> target.scheme, host |-> target.host,
                            path |-> target.path, query |-> target.query],
                   host |-> target.hostHeader,
                   headers |-> setAuthHeaders(originalReq.headers, model.type,
                                              provider, env)]]

\* tryModel from the clone of the request on: the headers are set and the
\* request is handed to client.Do whatever setAuthHeaders did.
tryModelRequest(headers, modelType, provider, env) ==
  [headers |-> setAuthHeaders(headers, modelType, provider, env),
   dispatched |-> TRUE]

(***************************************************************************)
(* Configuration: applyDefaults and Config.validate                        *)
(***************************************************************************)

\* applyDefaults: c.Retry.MaxCycles = 10
DefaultMaxCycles == 10

\* applyDefaults: c.Retry.DefaultInterval = 100 * time.Millisecond
DefaultIntervalMillis == 100

\* applyDefaults: l.ReadTimeout = time.Minute, in seconds
ReadTimeoutSeconds == 60

\* applyDefaults: l.WriteTimeout = 10 * time.Minute, in seconds
WriteTimeoutSeconds == 600

applyDefaults_NegativeIsUnset(c) ==
  [c EXCEPT
     !.Log.Level = IF @ = "" THEN "info" ELSE @,
     !.Retry.MaxCycles = IF @ <= 0 THEN DefaultMaxCycles ELSE @,
     !.Retry.DefaultTimeout = IF @ <= 0 THEN DefaultTimeoutSeconds ELSE @,
     !.Retry.DefaultInterval = IF @ <= 0 THEN DefaultIntervalMillis ELSE @,
     !.Listeners =
        [i \in DOMAIN @ |->
           [@[i] EXCEPT
              !.Host = IF @ = "" THEN "127.0.0.1" ELSE @,
              !.ReadTimeout = IF @ <= 0 THEN ReadTimeoutSeconds ELSE @,
              !.WriteTimeout = IF @ <= 0 THEN WriteTimeoutSeconds ELSE @]]]

\* applyDefaults: every field that is zero gets its default.
applyDefaults(c) ==
  [c EXCEPT
     !.Log.Level = IF @ = "" THEN "info" ELSE @,
     !.Retry.MaxCycles = IF @ = 0 THEN DefaultMaxCycles ELSE @,
     !.Retry.DefaultTimeout = DefaultedRetryTimeout(@),
     !.Retry.DefaultInterval = IF @ = 0 THEN DefaultIntervalMillis ELSE @,
     !.Listeners =
        [i \in DOMAIN @ |->
           [@[i] EXCEPT
              !.Host = IF @ = "" THEN "127.0.0.1" ELSE @,
              !.ReadTimeout = IF @ = 0 THEN ReadTimeoutSeconds ELSE @,
              !.WriteTimeout = IF @ = 0 THEN WriteTimeoutSeconds ELSE @]]]

\* url.Parse: an error for a malformed URL; the scheme is lowercased.
ParseURL(raw) ==
  IF raw.malformed THEN [err |-> TRUE, scheme |-> "", host |-> "", path |-> <<>>]
  ELSE [err |-> FALSE,
        scheme |-> IF raw.scheme = "HTTP" THEN "http"
                   ELSE IF raw.scheme = "HTTPS" THEN "https"
                   ELSE raw.scheme,
        host |-> raw.host,
        path |-> raw.path]

\* A provider whose URL has not been parsed: ParsedURL is nil.
NilURL == [err |-> FALSE, scheme |-> "nil", host |-> "nil", path |-> <<>>]

\* Config.validate on one provider URL: is it refused?
URLRefused(raw) ==
  LET parsedURL == ParseURL(raw)
  IN  \/ parsedURL.err
      \/ parsedURL.scheme = "" \/ parsedURL.host = ""
      \/ parsedURL.scheme \notin {"http", "https"}

\* Config.validate, providers: an error, or the providers with ParsedURL
\* set, its path without trailing slashes.
ValidateProviders(c) ==
  IF DOMAIN c.Providers = {} THEN [err |-> TRUE, Providers |-> c.Providers]
  ELSE IF \E name \in DOMAIN c.Providers : URLRefused(c.Providers[name].URL)
  THEN [err |-> TRUE, Providers |-> c.Providers]
  ELSE [err |-> FALSE,
        Providers |->
          [name \in DOMAIN c.Providers |->
             [c.Providers[name] EXCEPT
                !.ParsedURL = ValidatedURL(ParseURL(c.Providers[name].URL))]]]

isSupportedModelType(modelType) ==
  modelType \in {"openai", "anthropic", "bedrock"}

validateBedrockCredentials_PairOnly(p) ==
  (p.AWSAccessKeyID # Str("")) = (p.AWSSecretAccessKey # Str(""))

\* validateBedrockCredentials: TRUE when the credentials are accepted.
validateBedrockCredentials(p) ==
  LET hasAccessKeyID == p.AWSAccessKeyID # Str("")
      hasSecretAccessKey == p.AWSSecretAccessKey # Str("")
      hasSessionToken == p.AWSSessionToken # Str("")
  IN  /\ hasAccessKeyID = hasSecretAccessKey
      /\ ~(hasSessionToken /\ ~hasAccessKeyID)

\* Config.validate on one model: is it refused?
ModelRefused(m, providerMap) ==
  \/ m.Provider = ""
  \/ m.Provider \notin DOMAIN providerMap
  \/ m.Model = ""
  \/ m.Type = ""
  \/ ~isSupportedModelType(m.Type)
  \/ m.Type = "bedrock" /\ ~validateBedrockCredentials(providerMap[m.Provider])

DefaultedAttempts_ZeroKept(attempts) == IF attempts < 0 THEN 1 ELSE attempts

\* Config.validate: if m.Attempts <= 0 { m.Attempts = 1 }
DefaultedAttempts(attempts) == IF attempts <= 0 THEN 1 ELSE attempts

\* Config.validate, models: an error, or the models with their id and
\* their defaults.
ValidateModels(c, providerMap) ==
  IF DOMAIN c.Models = {} THEN [err |-> TRUE, Models |-> c.Models]
  ELSE IF \E id \in DOMAIN c.Models : ModelRefused(c.Models[id], providerMap)
  THEN [err |-> TRUE, Models |-> c.Models]
  ELSE [err |-> FALSE,
        Models |->
          [id \in DOMAIN c.Models |->
             [c.Models[id] EXCEPT
                !.ID = id,
                !.Attempts = DefaultedAttempts(@),
                !.Timeout = ValidatedModelTimeout(@, c.Retry.DefaultTimeout)]]]

\* Ports a listener may use.
MinPort == 1

MaxPort == 65535

RECURSIVE ResolveModels_KeepMixed(_, _, _, _, _)
ResolveModels_KeepMixed(ids, k, listenerType, resolved, modelMap) ==
  IF k > Len(ids)
  THEN [err |-> FALSE, ResolvedModels |-> resolved, ConfigType |-> listenerType]
  ELSE IF ids[k] \notin DOMAIN modelMap
  THEN [err |-> TRUE, ResolvedModels |-> resolved, ConfigType |-> listenerType]
  ELSE ResolveModels_KeepMixed(ids, k + 1,
         IF listenerType = "" THEN modelMap[ids[k]].Type ELSE listenerType,
         Append(resolved, modelMap[ids[k]]), modelMap)

RECURSIVE ResolveModels(_, _, _, _, _)
\* Config.validate, the loop over l.Models: the ids are looked up in
\* order; the first model gives the listener its type and a later model
\* of another type is an error.
ResolveModels(ids, k, listenerType, resolved, modelMap) ==
  IF k > Len(ids)
  THEN [err |-> FALSE, ResolvedModels |-> resolved, ConfigType |-> listenerType]
  ELSE IF ids[k] \notin DOMAIN modelMap
  THEN [err |-> TRUE, ResolvedModels |-> resolved, ConfigType |-> listenerType]
  ELSE IF listenerType # "" /\ modelMap[ids[k]].Type # listenerType
  THEN [err |-> TRUE, ResolvedModels |-> resolved, ConfigType |-> listenerType]
  ELSE ResolveModels(ids, k + 1,
         IF listenerType = "" THEN modelMap[ids[k]].Type ELSE listenerType,
         Append(resolved, modelMap[ids[k]]), modelMap)

\* net.JoinHostPort(l.Host, strconv.Itoa(l.Port))
JoinHostPort(host, port) == <<host, port>>

ListenerRefused_AnyPort(l, listenerNames, listenerAddrs) ==
  \/ l.Name = ""
  \/ l.Name \in listenerNames
  \/ l.Port = 0
  \/ JoinHostPort(l.Host, l.Port) \in listenerAddrs
  \/ Len(l.Models) = 0

\* Config.validate on one listener, before its models are resolved, given
\* the names and addresses of the listeners before it: is it refused?
ListenerRefused(l, listenerNames, listenerAddrs) ==
  \/ l.Name = ""
  \/ l.Name \in listenerNames
  \/ l.Port = 0
  \/ l.Port < MinPort \/ l.Port > MaxPort
  \/ JoinHostPort(l.Host, l.Port) \in listenerAddrs
  \/ Len(l.Models) = 0

RECURSIVE ValidateListeners(_, _, _, _, _)
\* Config.validate, listeners: in their order, with the names and the
\* addresses seen so far.
ValidateListeners(ls, i, listenerNames, listenerAddrs, modelMap) ==
  IF i > Len(ls) THEN [err |-> FALSE, Listeners |-> ls]
  ELSE IF ListenerRefused(ls[i], listenerNames, listenerAddrs)
  THEN [err |-> TRUE, Listeners |-> ls]
  ELSE LET r == ResolveModels(ls[i].Models, 1, "", <<>>, modelMap)
       IN  IF r.err THEN [err |-> TRUE, Listeners |-> ls]
           ELSE ValidateListeners(
                  [ls EXCEPT ![i].ResolvedModels = r.ResolvedModels,
                             ![i].ConfigType = r.ConfigType],
                  i + 1,
                  listenerNames \cup {ls[i].Name},
                  listenerAddrs \cup {JoinHostPort(ls[i].Host, ls[i].Port)},
                  modelMap)

\* What validate returns with an error: no configuration.
NoConfig == [Providers |-> <<>>, Models |-> <<>>, Listeners |-> <<>>]

validate_ResolveUndefaulted(c) ==
  LET ps == ValidateProviders(c)
      ms == ValidateModels(c, ps.Providers)
      lst == ValidateListeners(c.Listeners, 1, {}, {}, c.Models)
  IN  IF ps.err THEN [err |-> "providers", config |-> NoConfig]
      ELSE IF ms.err THEN [err |-> "models", config |-> NoConfig]
      ELSE IF Len(c.Listeners) = 0 \/ lst.err
      THEN [err |-> "listeners", config |-> NoConfig]
      ELSE [err |-> "none",
            config |-> [c EXCEPT !.Providers = ps.Providers,
                                 !.Models = ms.Models,
                                 !.Listeners = lst.Listeners]]

\* Config.validate: the stage that refused the configuration, or the
\* validated configuration.
validate(c) ==
  LET ps == ValidateProviders(c)
      ms == ValidateModels(c, ps.Providers)
      lst == ValidateListeners(c.Listeners, 1, {}, {}, ms.Models)
  IN  IF ps.err THEN [err |-> "providers", config |-> NoConfig]
      ELSE IF ms.err THEN [err |-> "models", config |-> NoConfig]
      ELSE IF Len(c.Listeners) = 0 \/ lst.err
      THEN [err |-> "listeners", config |-> NoConfig]
      ELSE [err |-> "none",
            config |-> [c EXCEPT !.Providers = ps.Providers,
                                 !.Models = ms.Models,
                                 !.Listeners = lst.Listeners]]

\* http.StatusBadGateway
StatusBadGateway == 502

ErrorHandler_Accepts(err) ==
  [status |-> 202, text |-> <<"proxy error: ", err>>]

\* newProxy, ErrorHandler:
\* http.Error(w, "proxy error: "+err.Error(), http.StatusBadGateway)
ErrorHandler(err) ==
  [status |-> StatusBadGateway, text |-> <<"proxy error: ", err>>]

HasAttemptTimeout_Always(streaming) == TRUE

\* tryModel: if !isStreaming { context.WithTimeout(ctx, model.Timeout) }
HasAttemptTimeout(streaming) == ~streaming

(***************************************************************************)
(* Initial state: a transport built by newRetryTransport over a validated  *)
(* model chain, and one inbound request about to enter RoundTrip.          *)
(***************************************************************************)
InitCall(chains, retries, provs, logs, reqs, ups) ==
  /\ models \in chains
  /\ providers \in provs
  /\ retry \in retries
  /\ logConfig \in logs
  /\ req \in reqs
  /\ upstream \in ups
  /\ body = 0
  /\ waitDuration = 0
  /\ ctxErr = "none"
  /\ pc = "start"
  /\ pos = End
  /\ isStreaming = FALSE
  /\ maxCycles = 0
  /\ totalAttempts = 0
  /\ lastErr = "none"
  /\ lastResp = NoResp
  /\ result = NoResult
  /\ returnedAt = 0
  /\ upstreamCalls = 0
  /\ waits = 0
  /\ lastOutcome = NoOutcome
  /\ allRetryable = TRUE
  /\ abortedAttempt = 0
  /\ cancelledAt = "none"
  /\ callerRead = "none"
  /\ fn = FnIdle
  /\ answer = NoAnswer
  /\ buffered = NoRequest.json
  /\ sent = NoRequest
  /\ inFlight = 0
  /\ openBodies = 0

\* One call on the transport.
InitOver(chains, retries, provs, logs, reqs, ups) ==
  /\ InitCall(chains, retries, provs, logs, reqs, ups)
  /\ other = NoCall
  /\ turn = 1

\* A body of 4 KiB, not encoded.
PlainBody ==
  [enc |-> "identity", len |-> ErrorBodyLimit, plainLen |-> ErrorBodyLimit]

\* A provider as validated: interval unset, URL parsed, API key configured.
PlainProvider ==
  [interval |-> 0,
   ParsedURL |-> [scheme |-> "https", host |-> "api.example.com",
                  path |-> <<"/", "v", "1">>],
   StripVersionPrefix |-> FALSE,
   APIKey |-> Str("sk"), AWSAccessKeyID |-> Str(""),
   AWSSecretAccessKey |-> Str(""), AWSSessionToken |-> Str("")]

PlainProviders == { [p \in ProviderIds |-> PlainProvider] }

\* The environment of the process: one variable is set.
ProcessEnv == [name \in {Str("KEY")} |-> Str("env-key")]

InitWith(chains) ==
  InitOver(chains,
           [MaxCycles : RetryMaxCyclesValues, DefaultInterval : {1},
            ExponentialBackoff : {FALSE}],
           PlainProviders, [IncludeErrorBody : BOOLEAN], RequestSamples,
           {{PlainBody}})

Init == InitWith(ModelChains)

\* The same transport built directly (as the tests do) over any chain.
RawInit == InitWith(RawModelChains)

(***************************************************************************)
(* Pieces of RoundTrip shared by several actions                           *)
(***************************************************************************)

\* Lines 473-479: the loops are over.
ReturnAfterLoops(lr, le) ==
  /\ pc' = "done"
  /\ result' = FinalResult(lr, le)
  /\ returnedAt' = FinalLine(lr, le)
  /\ UNCHANGED pos

\* continue: the next iteration of the loop nest, or the code after it.
Continue(lr, le) ==
  LET np == NextPos(models, maxCycles, pos)
  IN  IF np # End
      THEN /\ pc' = "top"
           /\ pos' = np
           /\ UNCHANGED <<result, returnedAt>>
      ELSE ReturnAfterLoops(lr, le)

\* Lines 416-432 and 446-462: the attempt ended in an error or a retryable
\* status; record it, wait unless this was the very last attempt, continue.
\* n is totalAttempts, counting the attempt that just ended.
Advance(lr, le, n) ==
  /\ lastResp' = lr
  /\ lastErr' = le
  /\ IF shouldWait(pos[1], pos[2], pos[3], Len(models),
                   models[pos[2] + 1].attempts, maxCycles)
     THEN /\ pc' = "wait"
          /\ waits' = waits + 1
          /\ waitDuration' =
               WaitDuration(
                 GetInterval(models[pos[2] + 1],
                             ProviderOf(providers, models[pos[2] + 1].provider),
                             retry.DefaultInterval),
                 n, retry.ExponentialBackoff)
          /\ UNCHANGED <<pos, result, returnedAt>>
     ELSE /\ UNCHANGED <<waits, waitDuration>>
          /\ Continue(lr, le)

\* tryModel returned (nil, err) for the attempt in flight.
AttemptError(kind) ==
  /\ lastOutcome' = [attempt |-> totalAttempts, status |-> -1]
  /\ allRetryable' = FALSE
  /\ Advance(lastResp, kind, totalAttempts)

(***************************************************************************)
(* Actions                                                                 *)
(***************************************************************************)

\* RoundTrip, lines 369-391: capture ctx, buffer the body, classify
\* streaming, compute maxCycles, enter the loops.
Preamble ==
  /\ pc = "start"
  /\ isStreaming' = isStreamingRequest(req)
  /\ maxCycles' = EffectiveMaxCycles(retry.MaxCycles)
  /\ body' = BufferBody(req.bodyLen)
  /\ buffered' = BufferBytes(req)
  /\ LET fp == FirstPos(models, EffectiveMaxCycles(retry.MaxCycles))
     IN  IF fp # End
         THEN /\ pc' = "top"
              /\ pos' = fp
              /\ UNCHANGED <<result, returnedAt>>
         ELSE ReturnAfterLoops(lastResp, lastErr)
  /\ UNCHANGED <<config, req, sent, inFlight, openBodies, ctxErr,
                 totalAttempts, lastErr, lastResp, upstreamCalls, waits,
                 waitDuration, lastOutcome, allRetryable, abortedAttempt,
                 cancelledAt, callerRead>>

\* Lines 397-399: the caller's context is done at the top of an iteration.
ContextCheckFails ==
  /\ pc = "top"
  /\ ContextDone(ctxErr)
  /\ pc' = "done"
  /\ result' = CtxCheckResult(lastResp, lastErr, ctxErr)
  /\ returnedAt' = 398
  /\ UNCHANGED <<config, req, buffered, sent, inFlight, openBodies,
                 ctxErr, pos, isStreaming, maxCycles, body, totalAttempts,
                 lastErr, lastResp, upstreamCalls, waits, waitDuration, lastOutcome,
                 allRetryable, abortedAttempt, cancelledAt, callerRead>>

\* Lines 401-415 and tryModel up to client.Do: count the attempt, look the
\* provider up, rewrite, dispatch.  A missing provider and a failed
\* model override fail the attempt before anything is sent.
AttemptStart ==
  /\ pc = "top"
  /\ ~ContextDone(ctxErr)
  /\ totalAttempts' = totalAttempts + 1
  /\ IF tryModelError(providers, models[pos[2] + 1], buffered) = "none"
     THEN /\ LET rewrite ==
                   tryModelRewrite(req, buffered, models[pos[2] + 1],
                                   providers[models[pos[2] + 1].provider],
                                   ProcessEnv)
             IN  /\ req' = rewrite.originalReq
                 /\ buffered' = rewrite.body
                 /\ sent' = rewrite.newReq
          /\ pc' = "inflight"
          /\ upstreamCalls' = upstreamCalls + 1
          /\ inFlight' = Dispatch(inFlight)
          /\ UNCHANGED <<pos, lastErr, lastResp, result, returnedAt, waits,
                         waitDuration, lastOutcome, allRetryable>>
     ELSE /\ lastOutcome' = [attempt |-> totalAttempts + 1, status |-> -1]
          /\ allRetryable' = FALSE
          /\ Advance(lastResp,
                     tryModelError(providers, models[pos[2] + 1], buffered),
                     totalAttempts + 1)
          /\ UNCHANGED <<upstreamCalls, req, buffered, sent, inFlight>>
  /\ UNCHANGED <<config, openBodies, ctxErr, isStreaming, maxCycles, body,
                 abortedAttempt, cancelledAt, callerRead>>

\* client.Do returns a response with status s (lines 434-468).
UpstreamResponds(s, b) ==
  /\ pc = "inflight"
  /\ ctxErr = "none"
  /\ lastOutcome' = [attempt |-> totalAttempts, status |-> s]
  /\ LET resp == ReceivedResponse(s, b, isStreaming)
     IN  IF isRetryable(s)
         THEN /\ Advance(handleRetryableResponse(resp,
                            logConfig.IncludeErrorBody), lastErr,
                         totalAttempts)
              /\ UNCHANGED allRetryable
         ELSE /\ pc' = "done"
              /\ result' =
                   [resp |-> IF s >= 400
                             THEN handleErrorResponse(resp,
                                    logConfig.IncludeErrorBody)
                             ELSE resp,
                    err |-> "none"]
              /\ returnedAt' = 468
              /\ allRetryable' = FALSE
              /\ UNCHANGED <<pos, lastErr, lastResp, waits, waitDuration>>
  /\ inFlight' = DoReturns(inFlight)
  /\ openBodies' =
       openBodies
         + Unclosed(IF isRetryable(s)
                    THEN handleRetryableResponse(
                           ReceivedResponse(s, b, isStreaming),
                           logConfig.IncludeErrorBody)
                    ELSE IF s >= 400
                    THEN handleErrorResponse(
                           ReceivedResponse(s, b, isStreaming),
                           logConfig.IncludeErrorBody)
                    ELSE ReceivedResponse(s, b, isStreaming))
  /\ UNCHANGED <<config, req, buffered, sent, ctxErr, isStreaming, maxCycles,
                 body, totalAttempts, upstreamCalls, abortedAttempt,
                 cancelledAt, callerRead>>

\* client.Do returns an error of the network (connection refused, reset).
UpstreamFails ==
  /\ pc = "inflight"
  /\ ctxErr = "none"
  /\ AttemptError("dispatch")
  /\ inFlight' = DoReturns(inFlight)
  /\ UNCHANGED <<config, req, buffered, sent, openBodies, ctxErr, isStreaming,
                 maxCycles, body, totalAttempts, upstreamCalls, abortedAttempt,
                 cancelledAt, callerRead>>

\* The per-attempt timeout of a non-streaming attempt expires in client.Do.
AttemptTimesOut ==
  /\ pc = "inflight"
  /\ ctxErr = "none"
  /\ HasAttemptTimeout(isStreaming)
  /\ AttemptError("timeout")
  /\ inFlight' = DoReturns(inFlight)
  /\ UNCHANGED <<config, req, buffered, sent, openBodies, ctxErr, isStreaming,
                 maxCycles, body, totalAttempts, upstreamCalls, abortedAttempt,
                 cancelledAt, callerRead>>

\* The caller's context is done while client.Do is in flight: the request
\* is bound to it (Clone(ctx), WithTimeout(ctx, ...)), Do returns its error.
AttemptAborted ==
  /\ pc = "inflight"
  /\ ctxErr # "none"
  /\ abortedAttempt' = IF abortedAttempt = 0 THEN totalAttempts
                       ELSE abortedAttempt
  /\ AttemptError(ctxErr)
  /\ inFlight' = DoReturns(inFlight)
  /\ UNCHANGED <<config, req, buffered, sent, openBodies, ctxErr, isStreaming,
                 maxCycles, body, totalAttempts, upstreamCalls, cancelledAt,
                 callerRead>>

\* wait, case <-time.After(waitDuration).  (When the context is done as
\* well, select may take either case; both leave the same state, which
\* WaitContextDone covers.)
WaitTimerFires ==
  /\ pc = "wait"
  /\ ctxErr = "none"
  /\ Continue(lastResp, lastErr)
  /\ UNCHANGED <<config, req, buffered, sent, inFlight, openBodies,
                 ctxErr, isStreaming, maxCycles, body, totalAttempts,
                 lastErr, lastResp, upstreamCalls, waits, waitDuration, lastOutcome,
                 allRetryable, abortedAttempt, cancelledAt, callerRead>>

\* wait, case <-ctx.Done().
WaitContextDone ==
  /\ pc = "wait"
  /\ ctxErr # "none"
  /\ Continue(lastResp, lastErr)
  /\ UNCHANGED <<config, req, buffered, sent, inFlight, openBodies,
                 ctxErr, isStreaming, maxCycles, body, totalAttempts,
                 lastErr, lastResp, upstreamCalls, waits, waitDuration, lastOutcome,
                 allRetryable, abortedAttempt, cancelledAt, callerRead>>

\* The caller's context fires (cancel or deadline) while RoundTrip runs.
Cancel(e) ==
  /\ pc \in {"top", "inflight", "wait"}
  /\ ctxErr = "none"
  /\ ctxErr' = e
  /\ cancelledAt' = pc
  /\ UNCHANGED <<config, req, buffered, sent, inFlight, openBodies,
                 pc, pos, isStreaming, maxCycles, body, totalAttempts,
                 lastErr, lastResp, result, returnedAt, upstreamCalls, waits, waitDuration,
                 lastOutcome, allRetryable, abortedAttempt, callerRead>>

\* The reverse proxy copies the body of the returned response to the client.
\* A closed body cannot be read; an in-memory reader always can; an upstream
\* body whose request context is done may or may not still deliver.
CallerReadsBody ==
  /\ pc = "done"
  /\ result.resp # NoResp
  /\ callerRead = "none"
  /\ callerRead' \in
       IF result.resp.body = "closed" THEN {"failed"}
       ELSE IF result.resp.body = "memory" THEN {"recorded"}
       ELSE IF result.resp.reqCtxDone \/ ctxErr # "none"
            THEN {"identical", "failed"}
       ELSE {"identical"}
  /\ UNCHANGED <<config, req, buffered, sent, inFlight, openBodies,
                 ctxErr, pc, pos, isStreaming, maxCycles, body,
                 totalAttempts, lastErr, lastResp, result, returnedAt,
                 upstreamCalls, waits, waitDuration, lastOutcome, allRetryable,
                 abortedAttempt, cancelledAt>>

\* ReverseProxy.ServeHTTP after Transport.RoundTrip returned: an error goes
\* to ErrorHandler, a response has its status written to the client.
ProxyAnswers ==
  /\ pc = "done"
  /\ answer = NoAnswer
  /\ answer' = IF result.err # "none" THEN ErrorHandler(result.err)
               ELSE [status |-> result.resp.status, text |-> <<>>]
  /\ UNCHANGED <<models, providers, retry, logConfig, req, fn, upstream,
                 other, turn, buffered, sent, inFlight, openBodies, ctxErr, pc, pos, isStreaming, maxCycles, body,
                 totalAttempts, lastErr, lastResp, result, returnedAt,
                 upstreamCalls, waits, waitDuration, lastOutcome, allRetryable,
                 abortedAttempt, cancelledAt, callerRead>>

Next ==
  \/ Preamble
  \/ ContextCheckFails
  \/ AttemptStart
  \/ \E s \in Statuses, b \in upstream : UpstreamResponds(s, b)
  \/ UpstreamFails
  \/ AttemptTimesOut
  \/ AttemptAborted
  \/ WaitTimerFires
  \/ WaitContextDone
  \/ \E e \in {"canceled", "deadline_exceeded"} : Cancel(e)
  \/ CallerReadsBody
  \/ ProxyAnswers

Spec == Init /\ [][Next]_vars

\* Every step of the program, every return of client.Do and every end of a
\* wait eventually happens; the caller's context need never fire.
Progress ==
  \/ Preamble
  \/ ContextCheckFails
  \/ AttemptStart
  \/ \E s \in Statuses, b \in upstream : UpstreamResponds(s, b)
  \/ UpstreamFails
  \/ AttemptTimesOut
  \/ AttemptAborted
  \/ WaitTimerFires
  \/ WaitContextDone
  \/ ProxyAnswers

RawSpec == RawInit /\ [][Next]_vars

FairSpec == Spec /\ WF_vars(Progress)

\* Inbound bodies around the cap of the buffer.
LargeRequests ==
  { [PlainRequest EXCEPT !.acceptHasSSE = sse, !.bodyLen = n] :
      sse \in BOOLEAN,
      n \in {0, MaxBodySize - 1, MaxBodySize, MaxBodySize + 1} }

BodyInit ==
  InitOver(ModelChains,
           [MaxCycles : {1}, DefaultInterval : {1},
            ExponentialBackoff : {FALSE}],
           PlainProviders, [IncludeErrorBody : BOOLEAN], LargeRequests,
           {{PlainBody}})

BodySpec == BodyInit /\ [][Next]_vars

\* Upstream bodies on both sides of the 4 KiB limit, plain, gzip-encoded
\* and with a Content-Encoding: gzip that is not gzip.
UpstreamBodies ==
  { PlainBody,
    [enc |-> "identity", len |-> ErrorBodyLimit + 1,
     plainLen |-> ErrorBodyLimit + 1],
    [enc |-> "gzip", len |-> 100, plainLen |-> ErrorBodyLimit + 1],
    [enc |-> "gzip", len |-> 100, plainLen |-> 200],
    [enc |-> "badgzip", len |-> 7, plainLen |-> 0] }

ErrorBodyInit ==
  InitOver(ModelChains,
           [MaxCycles : {1}, DefaultInterval : {1},
            ExponentialBackoff : {FALSE}],
           PlainProviders, [IncludeErrorBody : BOOLEAN], RequestSamples,
           {UpstreamBodies})

ErrorBodySpec == ErrorBodyInit /\ [][Next]_vars

\* Chains, providers and retry policies with intervals set at every level.
TimedChains ==
  UNION { [1..n -> [provider : ProviderIds, attempts : 1..MaxAttemptsCfg,
                    interval : {0, MaxDuration}, model : {"gpt"},
                    type : {"openai"}]] : n \in 1..MaxModels }

TimingInit ==
  InitOver(TimedChains,
           [MaxCycles : {1, MaxCyclesCfg}, DefaultInterval : {1},
            ExponentialBackoff : BOOLEAN],
           [ProviderIds -> { [PlainProvider EXCEPT !.interval = i] :
                               i \in {0, MaxDuration + 1} }],
           [IncludeErrorBody : {FALSE}],
           {r \in RequestSamples : ~isStreamingRequest(r)},
           {{PlainBody}})

TimingSpec == TimingInit /\ [][Next]_vars

\* Transports built directly: chains that name a provider the map does not
\* hold, and request bodies that the model override refuses.
UnknownProviderChains ==
  UNION { [1..n -> [provider : ProviderIds \cup {"ghost"},
                    attempts : 1..MaxAttemptsCfg, interval : {0},
                    model : {"gpt"}, type : {"openai"}]] :
            n \in 1..MaxModels }

RefusedRequests ==
  { PlainRequest, [PlainRequest EXCEPT !.json.kind = "refused"] }

FailingInit ==
  InitOver(UnknownProviderChains,
           [MaxCycles : {1, MaxCyclesCfg}, DefaultInterval : {1},
            ExponentialBackoff : {FALSE}],
           PlainProviders, [IncludeErrorBody : {FALSE}], RefusedRequests,
           {{PlainBody}})

FailingSpec == FailingInit /\ [][Next]_vars

\* Chains whose models differ in name and dialect, one attempt each.
NamedChains ==
  UNION { [1..n -> [provider : ProviderIds, attempts : {1}, interval : {0},
                    model : {"gpt", "claude"},
                    type : {"openai", "anthropic", "bedrock"}]] :
            n \in 1..MaxModels }

\* Providers with credentials for every dialect, with and without
\* strip_version_prefix, with an API key and with "-".
RewritingProviders ==
  [ProviderIds -> { [PlainProvider EXCEPT
                       !.StripVersionPrefix = strip,
                       !.APIKey = key,
                       !.AWSAccessKeyID = Str("AKIA"),
                       !.AWSSecretAccessKey = Str("secret")] :
                      strip \in BOOLEAN, key \in {Str("sk"), Str("-")} }]

\* Requests with and without a body, a model field and a version prefix.
RewrittenRequests ==
  { [PlainRequest EXCEPT !.json = b, !.url.path = path] :
      b \in { [kind |-> "nil", fields |-> <<>>],
              [kind |-> "object",
               fields |-> <<[key |-> "model", val |-> "old"],
                            [key |-> "messages", val |-> "1"]>>] },
      path \in { <<"/", "v", "1", "/", "a">>, <<"/", "a">> } }

RewriteInit ==
  InitOver(NamedChains,
           [MaxCycles : {1}, DefaultInterval : {1},
            ExponentialBackoff : {FALSE}],
           RewritingProviders, [IncludeErrorBody : {FALSE}],
           RewrittenRequests, {{PlainBody}})

RewriteSpec == RewriteInit /\ [][Next]_vars

(***************************************************************************)
(* Two RoundTrip calls on one transport.  Each call runs the code above on *)
(* its own goroutine: the variables hold the locals of the call that takes *)
(* the next step, other holds the locals of the call that does not, and    *)
(* the scheduler may switch between them at any point.                     *)
(***************************************************************************)
\* The locals of the call that is running, its request and context included.
Locals ==
  [req |-> req,
   ctxErr |-> ctxErr,
   pc |-> pc,
   pos |-> pos,
   isStreaming |-> isStreaming,
   maxCycles |-> maxCycles,
   totalAttempts |-> totalAttempts,
   lastErr |-> lastErr,
   lastResp |-> lastResp,
   result |-> result,
   returnedAt |-> returnedAt,
   upstreamCalls |-> upstreamCalls,
   waits |-> waits,
   lastOutcome |-> lastOutcome,
   allRetryable |-> allRetryable,
   abortedAttempt |-> abortedAttempt,
   cancelledAt |-> cancelledAt,
   callerRead |-> callerRead,
   body |-> body,
   waitDuration |-> waitDuration,
   answer |-> answer,
   buffered |-> buffered,
   sent |-> sent,
   inFlight |-> inFlight,
   openBodies |-> openBodies]

\* The locals of a call about to enter RoundTrip with request r.
StartOf(r) ==
  [req |-> r,
   ctxErr |-> "none",
   pc |-> "start",
   pos |-> End,
   isStreaming |-> FALSE,
   maxCycles |-> 0,
   totalAttempts |-> 0,
   lastErr |-> "none",
   lastResp |-> NoResp,
   result |-> NoResult,
   returnedAt |-> 0,
   upstreamCalls |-> 0,
   waits |-> 0,
   lastOutcome |-> NoOutcome,
   allRetryable |-> TRUE,
   abortedAttempt |-> 0,
   cancelledAt |-> "none",
   callerRead |-> "none",
   body |-> 0,
   waitDuration |-> 0,
   answer |-> NoAnswer,
   buffered |-> NoRequest.json,
   sent |-> NoRequest,
   inFlight |-> 0,
   openBodies |-> 0]

PerCall_OnTransport(own, running) == running

\* lastErr, lastResp and totalAttempts are declared inside RoundTrip: a
\* call that resumes finds its own values, not those of the call that ran.
PerCall(own, running) == own

\* The scheduler suspends the running call and resumes the other one.
Switch ==
  /\ other # NoCall
  /\ other' = Locals
  /\ turn' = 3 - turn
  /\ req' = other.req
  /\ ctxErr' = other.ctxErr
  /\ pc' = other.pc
  /\ pos' = other.pos
  /\ isStreaming' = other.isStreaming
  /\ maxCycles' = other.maxCycles
  /\ totalAttempts' = PerCall(other.totalAttempts, totalAttempts)
  /\ lastErr' = PerCall(other.lastErr, lastErr)
  /\ lastResp' = PerCall(other.lastResp, lastResp)
  /\ result' = other.result
  /\ returnedAt' = other.returnedAt
  /\ upstreamCalls' = other.upstreamCalls
  /\ waits' = other.waits
  /\ lastOutcome' = other.lastOutcome
  /\ allRetryable' = other.allRetryable
  /\ abortedAttempt' = other.abortedAttempt
  /\ cancelledAt' = other.cancelledAt
  /\ callerRead' = other.callerRead
  /\ body' = other.body
  /\ waitDuration' = other.waitDuration
  /\ answer' = other.answer
  /\ buffered' = other.buffered
  /\ sent' = other.sent
  /\ inFlight' = other.inFlight
  /\ openBodies' = other.openBodies
  /\ UNCHANGED <<models, providers, retry, logConfig, upstream, fn>>

\* Two requests, one of them streaming, enter RoundTrip on the same
\* transport.
ConcurrentChains ==
  UNION { [1..n -> [provider : ProviderIds, attempts : {1}, interval : {0},
                    model : {"gpt"}, type : {"openai"}]] :
            n \in 1..MaxModels }

ConcurrentInit ==
  /\ InitCall(ConcurrentChains,
              [MaxCycles : {1}, DefaultInterval : {1},
               ExponentialBackoff : {FALSE}],
              PlainProviders, [IncludeErrorBody : {FALSE}],
              {PlainRequest}, {{PlainBody}})
  /\ other = StartOf([PlainRequest EXCEPT !.acceptHasSSE = TRUE])
  /\ turn = 1

ConcurrentNext == Next \/ Switch

ConcurrentSpec == ConcurrentInit /\ [][ConcurrentNext]_vars

TypeOK ==
  /\ pc \in {"idle", "start", "top", "inflight", "wait", "done"}
  /\ totalAttempts \in Nat
  /\ upstreamCalls \in 0..totalAttempts

(***************************************************************************)
(* Helper functions of the transport and of the configuration, evaluated   *)
(* one call at a time: fn.arg is the input, fn.out the value returned.     *)
(***************************************************************************)
\* Inbound request URLs as the server hands them over: a path that is "/"
\* or longer, with or without a query.
RequestURLs ==
  [scheme : {"http"}, host : {"localhost"},
   path : UNION { {<<"/">> \o t : t \in [1..n -> PathChars]} :
                  n \in 0..(MaxPathLen - 1) },
   query : {"", "stream=1"}]

\* Provider URLs as configured, before validation.
ProviderURLs ==
  [scheme : {"https"}, host : {"api.example.com"},
   path : { <<>>, <<"/">>, <<"/", "a">>, <<"/", "a", "/">>,
            <<"/", "a", "/", "/">>, <<"/", "v", "1">>,
            <<"/", "v", "1", "/">>, <<"/", "a", "/", "/", "a">> }]

\* Model types: the three dialects and one that validation does not know.
ModelTypes == {"openai", "anthropic", "bedrock", "other"}

\* The environment: the variables a configured $NAME can refer to, "" for
\* a variable that is unset or empty.
Environments == [{Str("KEY")} -> {Str(""), Str("-"), Str("env-key")}]

\* Headers of the inbound request that the rewriting can touch.
ClientHeaders ==
  [Authorization : {Absent, <<"Bearer", Str("client")>>},
   XApiKey : {Absent, <<Str("client")>>},
   AnthropicVersion : {Absent, <<"2023-01-01">>},
   ContentType : {Absent, <<"text/plain">>},
   XAmzDate : {Absent},
   XAmzSecurityToken : {Absent}]

\* The credentials of a provider that passed validateBedrockCredentials:
\* access key id and secret are configured together, a session token only
\* with them.
ValidatedCredentials ==
  { p \in [APIKey : {Str(""), Str("-"), Str("sk"), EnvRef("KEY")},
           AWSAccessKeyID : {Str(""), Str("AKIA"), EnvRef("KEY")},
           AWSSecretAccessKey : {Str(""), Str("secret")},
           AWSSessionToken : {Str(""), Str("token")}] :
      /\ (p.AWSAccessKeyID # Str("")) = (p.AWSSecretAccessKey # Str(""))
      /\ (p.AWSSessionToken # Str("")) => (p.AWSAccessKeyID # Str("")) }

MaxFields == 2        \* most fields of a JSON object in a request body

\* Request paths as sequences of tokens.
RequestPaths ==
  { <<"/", "chat">>, <<"/", "chat", "/", "stream">>,
    <<"/", "chat", "-", "stream">>, <<"/", "up", "stream">>,
    <<"/", "stream", "ing">>, <<"/", "chat", "/", "Stream">> }

\* Values of an Accept header line, as sequences of tokens.
AcceptValues ==
  { <<"application/json">>, <<"text/event-stream">>,
    <<"text/event-stream", "; charset=utf-8">>, <<"TEXT/EVENT-STREAM">> }

\* The Accept header: no line, one line, or two.
AcceptHeaders ==
  {<<>>} \cup {<<v>> : v \in AcceptValues}
         \cup {<<v, w>> : v \in {<<"application/json">>}, w \in AcceptValues}

JSONFields ==
  [key : {"stream", "Stream", "model"}, val : {"true", "false", "string"}]
  \cup [key : {"stream"}, val : {"null"}]

\* Request bodies: none, empty, not JSON, a JSON array, and JSON objects
\* whose keys are distinct.
RequestBodies ==
  [kind : {"nil", "empty", "invalid", "array"}, fields : {<<>>}]
  \cup { b \in [kind : {"object"},
                 fields : UNION { [1..n -> JSONFields] : n \in 0..MaxFields }] :
           \A i, j \in DOMAIN b.fields :
             i # j => b.fields[i].key # b.fields[j].key }

MaxListeners == 2     \* most listeners of a configuration

\* Provider URLs as written in the configuration.
GoodURL ==
  [malformed |-> FALSE, scheme |-> "https", host |-> "api.example.com",
   path |-> <<"/", "a">>]

ConfiguredURLs ==
  [malformed : {FALSE}, scheme : {"", "https", "HTTP", "ftp"},
   host : {"", "api.example.com"},
   path : {<<>>, <<"/", "a">>, <<"/", "a", "/", "/">>}]
  \cup {[GoodURL EXCEPT !.malformed = TRUE]}

ProviderOf_(url, accessKeyID, secretAccessKey, sessionToken) ==
  [URL |-> url, AWSAccessKeyID |-> accessKeyID,
   AWSSecretAccessKey |-> secretAccessKey, AWSSessionToken |-> sessionToken,
   ParsedURL |-> NilURL]

GoodProvider == ProviderOf_(GoodURL, Str(""), Str(""), Str(""))

ModelOf(provider, name, type, attempts, timeout) ==
  [ID |-> "", Provider |-> provider, Model |-> name, Type |-> type,
   Attempts |-> attempts, Timeout |-> timeout]

ListenerOf(name, host, port, ids) ==
  [Name |-> name, Host |-> host, Port |-> port, ReadTimeout |-> 0,
   WriteTimeout |-> 0, Models |-> ids, ResolvedModels |-> <<>>,
   ConfigType |-> ""]

ConfigOf(providerMap, modelMap, listeners, defaultTimeout) ==
  [Log |-> [Level |-> "info"],
   Retry |-> [MaxCycles |-> 1, DefaultTimeout |-> defaultTimeout,
              DefaultInterval |-> 1],
   Providers |-> providerMap, Models |-> modelMap, Listeners |-> listeners]

OneProvider == [id \in {"p1"} |-> GoodProvider]

OneModel == [id \in {"m1"} |-> ModelOf("p1", "gpt", "openai", 1, 1)]

OneListener == <<ListenerOf("a", "127.0.0.1", 8080, <<"m1">>)>>

\* Configurations whose listeners differ in name, host, port and in
\* whether they reference a model.
ListenerAddressConfigs ==
  { ConfigOf(OneProvider, OneModel, ls, 30) :
      ls \in UNION { [1..n -> { ListenerOf(name, host, port, ids) :
                                  name \in {"", "a", "b"},
                                  host \in {"", "127.0.0.1"},
                                  port \in {0, 1, 65535, 65536},
                                  ids \in {<<>>, <<"m1">>} }] :
                     n \in 0..MaxListeners } }

\* Three registered models of two types, one with nothing but its
\* required fields set.
ThreeModels ==
  [id \in {"m1", "m2", "m3"} |->
     IF id = "m1" THEN ModelOf("p1", "gpt", "openai", 0, 0)
     ELSE IF id = "m2" THEN ModelOf("p1", "claude", "anthropic", 2, 1)
     ELSE ModelOf("p1", "gpt-mini", "openai", 1, 2)]

ModelIdChains ==
  UNION { [1..n -> {"m1", "m2", "m3", "mX"}] : n \in 1..MaxModels }

\* Configurations whose one or two listeners differ in their model ids.
ListenerModelConfigs ==
  { ConfigOf(OneProvider, ThreeModels, <<ListenerOf("a", "", 1, ids)>>, 30) :
      ids \in ModelIdChains }
  \cup { ConfigOf(OneProvider, ThreeModels,
                  <<ListenerOf("a", "", 1, ids1), ListenerOf("b", "", 2, ids2)>>,
                  30) :
           ids1 \in ModelIdChains, ids2 \in ModelIdChains }

\* Configurations that differ in the fields of one model.
ModelConfigs ==
  { ConfigOf(OneProvider,
             [id \in {"m1"} |-> ModelOf(provider, name, type, attempts, timeout)],
             OneListener, defaultTimeout) :
      provider \in {"", "p1", "pX"}, name \in {"", "gpt"},
      type \in {"", "openai", "anthropic", "bedrock", "other"},
      attempts \in (-1)..MaxAttemptsCfg, timeout \in DurationValues,
      defaultTimeout \in {1, 30} }
  \cup { ConfigOf(OneProvider, <<>>, OneListener, 30) }

\* Configurations that differ in the URLs of their providers, the second
\* of which no model uses.
ProviderConfigs ==
  { ConfigOf([id \in {"p1", "p2"} |->
                ProviderOf_(IF id = "p1" THEN u1 ELSE u2,
                            Str(""), Str(""), Str(""))],
             OneModel, OneListener, 30) :
      u1 \in ConfiguredURLs, u2 \in ConfiguredURLs }
  \cup { ConfigOf(<<>>, OneModel, OneListener, 30) }

\* Configurations that differ in the AWS credentials of the provider and in
\* whether a bedrock model uses it.
CredentialConfigs ==
  { ConfigOf([id \in {"p1"} |->
                ProviderOf_(GoodURL, accessKeyID, secretAccessKey, sessionToken)],
             [id \in {"m1"} |-> ModelOf("p1", "claude", type, 1, 1)],
             OneListener, 30) :
      accessKeyID \in {Str(""), Str("AKIA"), EnvRef("KEY")},
      secretAccessKey \in {Str(""), Str("secret")},
      sessionToken \in {Str(""), Str("token")},
      type \in {"openai", "bedrock"} }

MaxTokens == 3        \* longest configured string, in tokens

\* Configured strings: every sequence of a $, a name and another text.
ConfigStrings ==
  UNION { [1..n -> {"$", "KEY", "a"}] : n \in 0..MaxTokens }

\* Environments in which KEY and KEYa are unset, empty, or set, one of the
\* values being the text of a reference itself.
ResolveEnvironments ==
  UNION { [names -> {Str(""), Str("value"), EnvRef("KEY")}] :
            names \in SUBSET {<<"KEY">>, <<"KEY", "a">>} }

\* Bodies given to the model override: none, empty, and JSON objects of
\* distinct keys with or without a model field.
OverrideBodies ==
  [kind : {"nil", "empty"}, fields : {<<>>}]
  \cup { b \in [kind : {"object"},
                 fields : UNION { [1..n -> [key : {"model", "stream", "messages"},
                                            val : {"old", "1"}]] :
                                  n \in 0..MaxFields }] :
           \A i, j \in DOMAIN b.fields :
             i # j => b.fields[i].key # b.fields[j].key }

ModelNames == {"gpt", "claude"}

\* Configurations as deserialized, with every field that has a default
\* unset, set, or (where it is a number) negative.
DefaultsConfigs ==
  { [ConfigOf(OneProvider, OneModel, ls, defaultTimeout) EXCEPT
       !.Log.Level = level,
       !.Retry.MaxCycles = cycles,
       !.Retry.DefaultInterval = defaultInterval] :
      level \in {"", "debug"},
      cycles \in {-1, 0, MaxCyclesCfg},
      defaultTimeout \in DurationValues,
      defaultInterval \in DurationValues,
      ls \in UNION { [1..n -> { [ListenerOf("a", host, 8080, <<"m1">>) EXCEPT
                                   !.ReadTimeout = read,
                                   !.WriteTimeout = write] :
                                  host \in {"", "0.0.0.0"},
                                  read \in {0, MaxDuration},
                                  write \in {-1, 0} }] :
                     n \in 0..MaxListeners } }

FnInputs ==
  [op : {"classify"}, arg : StatusCodes, out : {0}, done : {FALSE}]
  \cup [op : {"interval"},
        arg : [model : [interval : DurationValues],
               provider : [interval : DurationValues],
               defaultInterval : DurationValues],
        out : {0}, done : {FALSE}]
  \cup [op : {"timeout"},
        arg : [timeout : DurationValues, defaultTimeout : DurationValues],
        out : {0}, done : {FALSE}]
  \cup [op : {"auth"},
        arg : [headers : ClientHeaders, type : ModelTypes,
               provider : ValidatedCredentials, env : Environments],
        out : {0}, done : {FALSE}]
  \cup [op : {"streaming"},
        arg : [path : RequestPaths, accept : AcceptHeaders,
               body : RequestBodies],
        out : {0}, done : {FALSE}]
  \cup [op : {"validate"},
        arg : ListenerAddressConfigs \cup ListenerModelConfigs
              \cup ModelConfigs \cup ProviderConfigs \cup CredentialConfigs,
        out : {0}, done : {FALSE}]
  \cup [op : {"resolve"},
        arg : [v : ConfigStrings, env : ResolveEnvironments],
        out : {0}, done : {FALSE}]
  \cup [op : {"setModel"},
        arg : [body : OverrideBodies, m1 : ModelNames, m2 : ModelNames],
        out : {0}, done : {FALSE}]
  \cup [op : {"defaults"},
        arg : DefaultsConfigs,
        out : {0}, done : {FALSE}]
  \cup [op : {"url"},
        arg : [url : RequestURLs, base : ProviderURLs,
               strip : BOOLEAN],
        out : {0}, done : {FALSE}]

\* The rest of the state while a helper function is evaluated on its own.
RoundTripIdle ==
  /\ models = <<>>
  /\ providers = [p \in ProviderIds |-> PlainProvider]
  /\ retry = [MaxCycles |-> 1, DefaultInterval |-> 1,
              ExponentialBackoff |-> FALSE]
  /\ logConfig = [IncludeErrorBody |-> FALSE]
  /\ req = PlainRequest
  /\ upstream = {}
  /\ body = 0
  /\ waitDuration = 0
  /\ ctxErr = "none"
  /\ pc = "idle"
  /\ pos = End
  /\ isStreaming = FALSE
  /\ maxCycles = 0
  /\ totalAttempts = 0
  /\ lastErr = "none"
  /\ lastResp = NoResp
  /\ result = NoResult
  /\ returnedAt = 0
  /\ upstreamCalls = 0
  /\ waits = 0
  /\ lastOutcome = NoOutcome
  /\ allRetryable = TRUE
  /\ abortedAttempt = 0
  /\ cancelledAt = "none"
  /\ callerRead = "none"
  /\ answer = NoAnswer
  /\ buffered = NoRequest.json
  /\ sent = NoRequest
  /\ inFlight = 0
  /\ openBodies = 0
  /\ other = NoCall
  /\ turn = 1

roundTripVars ==
  <<models, providers, retry, logConfig, req, ctxErr, pc, pos, isStreaming,
    maxCycles, totalAttempts, lastErr, lastResp, result, returnedAt,
    upstreamCalls, waits, lastOutcome, allRetryable, abortedAttempt,
    cancelledAt, callerRead, upstream, body, waitDuration, answer, buffered,
    sent, inFlight, openBodies, other, turn>>

FnInit == fn \in FnInputs /\ RoundTripIdle

Returns(v) ==
  /\ fn' = [fn EXCEPT !.out = v, !.done = TRUE]
  /\ UNCHANGED roundTripVars

EvalClassify ==
  /\ fn.op = "classify" /\ ~fn.done
  /\ Returns(Classify(fn.arg))

EvalGetInterval ==
  /\ fn.op = "interval" /\ ~fn.done
  /\ Returns(GetInterval(fn.arg.model, fn.arg.provider,
                         fn.arg.defaultInterval))

EvalAppliedTimeout ==
  /\ fn.op = "timeout" /\ ~fn.done
  /\ Returns(AppliedTimeout(fn.arg.timeout, fn.arg.defaultTimeout))

EvalBuildTargetURL ==
  /\ fn.op = "url" /\ ~fn.done
  /\ Returns(buildTargetURL(fn.arg.url,
                            [ParsedURL |-> ValidatedURL(fn.arg.base),
                             StripVersionPrefix |-> fn.arg.strip]))

EvalIsStreamingRequest ==
  /\ fn.op = "streaming" /\ ~fn.done
  /\ Returns(isStreamingRequest(
               [pathHasStream |-> PathHasStream(fn.arg.path),
                acceptHasSSE |-> AcceptHasSSE(fn.arg.accept),
                bodyStreamTrue |-> BodyStreamTrue(fn.arg.body)]))

EvalValidate ==
  /\ fn.op = "validate" /\ ~fn.done
  /\ Returns(validate(fn.arg))

\* The same string resolved twice, the environment unchanged in between.
EvalResolveEnvOrValue ==
  /\ fn.op = "resolve" /\ ~fn.done
  /\ Returns([first |-> resolveEnvOrValue(fn.arg.v, fn.arg.env),
              second |-> resolveEnvOrValue(fn.arg.v, fn.arg.env)])

\* The override with m2, and the override with m1 followed by m2.
EvalSetModel ==
  /\ fn.op = "setModel" /\ ~fn.done
  /\ Returns([once |-> setModel(fn.arg.body, fn.arg.m2),
              twice |-> setModel(setModel(fn.arg.body, fn.arg.m1).body,
                                 fn.arg.m2)])

\* The defaults applied once, and applied to the result again.
EvalApplyDefaults ==
  /\ fn.op = "defaults" /\ ~fn.done
  /\ Returns([once |-> applyDefaults(fn.arg),
              twice |-> applyDefaults(applyDefaults(fn.arg))])

EvalTryModelRequest ==
  /\ fn.op = "auth" /\ ~fn.done
  /\ Returns(tryModelRequest(fn.arg.headers, fn.arg.type, fn.arg.provider,
                             fn.arg.env))

FnNext ==
  \/ EvalClassify
  \/ EvalGetInterval
  \/ EvalAppliedTimeout
  \/ EvalBuildTargetURL
  \/ EvalTryModelRequest
  \/ EvalIsStreamingRequest
  \/ EvalValidate
  \/ EvalResolveEnvOrValue
  \/ EvalSetModel
  \/ EvalApplyDefaults

FnSpec == FnInit /\ [][FnNext]_vars

(***************************************************************************)
(* Vocabulary of the properties                                            *)
(***************************************************************************)
RECURSIVE SumBefore(_, _)
\* model.attempts summed over the first k models of the chain
SumBefore(ms, k) ==
  IF k = 0 THEN 0 ELSE SumBefore(ms, k - 1) + ms[k].attempts

SumAttempts(ms) == SumBefore(ms, Len(ms))

\* The number of attempts one call may make.
AttemptBudget == Max(retry.MaxCycles, 1) * SumAttempts(models)

\* 0-based rank of a loop position in the order (cycle, model_index, attempt)
Rank(p) == p[1] * SumAttempts(models) + SumBefore(models, p[2]) + p[3]

RetryableStatus(s) == s = 429 \/ s >= 500

Returned == pc = "done"

(***************************************************************************)
(* Properties                                                              *)
(***************************************************************************)

\* C1: when every attempt returned a retryable status and the caller's
\* context never fired, the finished call has made exactly
\* max(max_cycles, 1) x (sum of model.attempts) upstream calls.
C1_ExactCallCount ==
  (Returned /\ allRetryable /\ ctxErr = "none")
    => /\ upstreamCalls = AttemptBudget
       /\ totalAttempts = AttemptBudget

C1_Witness ==
  /\ Returned /\ allRetryable /\ ctxErr = "none"
  /\ Len(models) = 2 /\ retry.MaxCycles = 2
  /\ upstreamCalls >= 4
  /\ result.resp.status = 429

\* C2: the first attempt answered with a status below 400 ends the call:
\* that response is returned with a nil error, it is the last attempt, and
\* no wait follows it.
C2_SuccessShortCircuits ==
  (lastOutcome.status >= 1 /\ lastOutcome.status < 400)
    => /\ Returned
       /\ returnedAt = 468
       /\ result.err = "none"
       /\ result.resp.status = lastOutcome.status
       /\ totalAttempts = lastOutcome.attempt
       /\ waits = totalAttempts - 1

C2_Witness ==
  /\ Returned
  /\ lastOutcome = [attempt |-> 1, status |-> 399]
  /\ Len(models) = 2 /\ models[1].attempts = 2 /\ maxCycles = 2

\* C3: a successful non-streaming response is returned untouched: body not
\* read, not closed, per-attempt context not cancelled, so the caller reads
\* the upstream body byte-identical.
C3_BodyOwnership ==
  (Returned /\ returnedAt = 468 /\ result.resp.status < 400 /\ ~isStreaming)
    => /\ ~result.resp.read
       /\ result.resp.body = "upstream"
       /\ ~result.resp.reqCtxDone
       /\ callerRead \in {"none", "identical"}

\* C4: a client-error status (400-499 other than 429) is terminal: the
\* response is returned with a nil error and nothing follows the attempt.
C4_ClientErrorTerminal ==
  (lastOutcome.status >= 400 /\ lastOutcome.status < 500
     /\ lastOutcome.status # 429)
    => /\ Returned
       /\ returnedAt = 468
       /\ result.err = "none"
       /\ result.resp.status = lastOutcome.status
       /\ totalAttempts = lastOutcome.attempt
       /\ waits = totalAttempts - 1
       /\ lastResp.status # lastOutcome.status

C4_Witness ==
  /\ Returned
  /\ lastOutcome = [attempt |-> 1, status |-> 499]
  /\ Len(models) = 2 /\ models[1].attempts = 2 /\ maxCycles = 2

\* C5: attempts are issued in lexicographic order of (cycle, model_index,
\* attempt) without a gap: the k-th attempt is the one of rank k, an attempt
\* starts only after the one before it ended in an error or a retryable
\* status, and a terminal response is that of the current attempt.
C5_LexicographicOrder ==
  /\ pc \in {"top", "inflight", "wait"}
       => /\ pos \in LoopPositions(models, Max(retry.MaxCycles, 1))
          /\ totalAttempts = Rank(pos) + (IF pc = "top" THEN 0 ELSE 1)
  /\ (pc \in {"top", "inflight"} /\ Rank(pos) > 0)
       => /\ lastOutcome.attempt = Rank(pos)
          /\ lastOutcome.status = -1 \/ RetryableStatus(lastOutcome.status)
  /\ returnedAt = 468
       => /\ totalAttempts = Rank(pos) + 1
          /\ lastOutcome.attempt = totalAttempts
          /\ ~RetryableStatus(lastOutcome.status)
          /\ result.resp.status = lastOutcome.status

C5_Witness ==
  /\ returnedAt = 468
  /\ pos = <<1, 1, 1>>
  /\ models[1].attempts = 2
  /\ totalAttempts = 8

\* C6: when the loops end without a terminal result the call returns the
\* most recent retryable response if there is one (also when later attempts
\* failed), else the most recent attempt error, else the fixed error.
C6_ExhaustedResult ==
  (Returned /\ returnedAt \in {474, 477, 479})
    => /\ lastResp # NoResp
            => /\ result = [resp |-> lastResp, err |-> "none"]
               /\ returnedAt = 474
       /\ RetryableStatus(lastOutcome.status)
            => result.resp.status = lastOutcome.status
       /\ (lastResp = NoResp /\ lastErr # "none")
            => /\ result = [resp |-> NoResp, err |-> lastErr]
               /\ lastOutcome.status = -1
               /\ returnedAt = 477
       /\ (lastResp = NoResp /\ lastErr = "none")
            => /\ result = [resp |-> NoResp, err |-> "exhausted"]
               /\ returnedAt = 479

C6_Witness ==
  /\ Returned /\ returnedAt = 474
  /\ lastOutcome.status = -1
  /\ lastErr = "dispatch"
  /\ result.resp.status = 500

\* C7: with the caller's context already done at the top of an iteration,
\* the call returns (nil, context error) in that step, without dispatching
\* and without counting the attempt, whatever was recorded before.
C7_CancelledBeforeAttempt ==
  [][(pc = "top" /\ ctxErr # "none")
       => /\ pc' = "done"
          /\ result' = [resp |-> NoResp, err |-> ctxErr]
          /\ totalAttempts' = totalAttempts
          /\ upstreamCalls' = upstreamCalls]_vars

C7_Witness ==
  /\ Returned /\ returnedAt = 398
  /\ cancelledAt = "top"
  /\ lastResp # NoResp /\ lastErr # "none"
  /\ result = [resp |-> NoResp, err |-> "canceled"]

\* C8 (as stated): once the caller's context aborted an attempt in flight,
\* the call returns the context's error and makes no further attempt, at
\* every position of the loop.
C8_AbortReturnsContextError ==
  (Returned /\ abortedAttempt > 0)
    => /\ result = [resp |-> NoResp, err |-> ctxErr]
       /\ totalAttempts = abortedAttempt

\* C8 (amended): once the caller's context aborted an attempt in flight, no
\* further attempt is made; the call returns the context's error, except
\* that when the aborted attempt was the last of the last model in the last
\* cycle and a retryable response was recorded before it, that response is
\* returned with a nil error.
C8_AbortEndsCall ==
  abortedAttempt > 0
    => /\ totalAttempts = abortedAttempt
       /\ pc \in {"wait", "top", "done"}
       /\ lastOutcome = [attempt |-> abortedAttempt, status |-> -1]
       /\ Returned
            => IF abortedAttempt = AttemptBudget /\ lastResp # NoResp
               THEN result = [resp |-> lastResp, err |-> "none"]
               ELSE result = [resp |-> NoResp, err |-> ctxErr]

C8_Witness ==
  /\ Returned /\ abortedAttempt > 0
  /\ abortedAttempt < AttemptBudget
  /\ lastResp # NoResp
  /\ result = [resp |-> NoResp, err |-> "deadline_exceeded"]

\* C9: when the caller's context fires during an inter-attempt wait, the
\* wait can end at once, no further attempt is made, and the call returns
\* the context's error from the check at the top of the next iteration.
C9_CancelledInWait ==
  cancelledAt = "wait"
    => /\ pc \in {"wait", "top", "done"}
       /\ totalAttempts = waits
       /\ pc = "wait" => ENABLED WaitContextDone
       /\ Returned
            => /\ returnedAt = 398
               /\ result = [resp |-> NoResp, err |-> ctxErr]

C9_Witness ==
  /\ Returned /\ cancelledAt = "wait"
  /\ returnedAt = 398
  /\ totalAttempts >= 2

\* C10: every call returns, after at most max(max_cycles, 1) x (sum of
\* model.attempts) attempts, also for max_cycles <= 0.
C10_Terminates ==
  /\ <>Returned
  /\ [](totalAttempts <= AttemptBudget)

C10_Witness ==
  /\ Returned
  /\ retry.MaxCycles <= 0
  /\ totalAttempts = SumAttempts(models)
  /\ totalAttempts >= 2

\* C11: only a non-streaming attempt can end by the model timeout, and an
\* attempt that timed out is an attempt error like any other: recorded as
\* the last error and followed by the wait or the next step of the loop; a
\* streaming attempt in flight ends only by an answer or an error of the
\* upstream or by the caller's context.
C11_TimeoutOnlyNonStreaming ==
  [][(pc = "inflight" /\ pc' # "inflight")
       => /\ (lastOutcome'.status = -1 /\ lastErr' = "timeout")
               => /\ ~isStreaming
                  /\ lastOutcome'.attempt = totalAttempts
                  /\ lastResp' = lastResp
                  /\ IF totalAttempts = AttemptBudget
                     THEN pc' = "done" /\ returnedAt' \in {474, 477}
                     ELSE pc' = "wait"
          /\ isStreaming
               => \/ lastOutcome'.status \in Statuses
                  \/ lastErr' = "dispatch"
                  \/ ctxErr # "none" /\ lastErr' = ctxErr]_vars

C11_Witness ==
  /\ ~isStreaming
  /\ lastErr = "timeout"
  /\ pc = "inflight"
  /\ totalAttempts >= 2

\* C12: the classification of a status is total and exclusive: retryable
\* iff 429 or >= 500, terminal client error for the other 4xx, terminal
\* success below 400.
C12_ClassificationTotal ==
  (fn.op = "classify" /\ fn.done)
    => /\ fn.out \in {"retryable", "client_error", "success"}
       /\ fn.out = "retryable" <=> (fn.arg = 429 \/ fn.arg >= 500)
       /\ fn.out = "client_error"
            <=> (fn.arg >= 400 /\ fn.arg <= 499 /\ fn.arg # 429)
       /\ fn.out = "success" <=> fn.arg < 400

C12_Witness ==
  fn.op = "classify" /\ fn.done /\ fn.arg = 429 /\ fn.out = "retryable"

\* C15: the effective interval is model.interval if positive, else the
\* provider's interval if positive, else retry.default_interval.
C15_EffectiveInterval ==
  (fn.op = "interval" /\ fn.done)
    => LET mi == fn.arg.model.interval
           pi == fn.arg.provider.interval
       IN  /\ mi > 0 => fn.out = mi
           /\ (mi <= 0 /\ pi > 0) => fn.out = pi
           /\ (mi <= 0 /\ pi <= 0) => fn.out = fn.arg.defaultInterval

C15_Witness ==
  /\ fn.op = "interval" /\ fn.done
  /\ fn.arg.model.interval = 0
  /\ fn.arg.provider.interval = -1
  /\ fn.arg.defaultInterval = 2
  /\ fn.out = 2

\* C16: the timeout applied to a non-streaming attempt is model.timeout if
\* the configured value is positive and retry.default_timeout otherwise, so
\* it is always positive.
C16_AppliedTimeoutPositive ==
  (fn.op = "timeout" /\ fn.done)
    => /\ fn.out = IF fn.arg.timeout > 0 THEN fn.arg.timeout
                   ELSE DefaultedRetryTimeout(fn.arg.defaultTimeout)
       /\ fn.out > 0

\* C13: a body of at most 100 MiB is buffered and forwarded whole; a longer
\* body makes RoundTrip fail with BodyTooLarge before any upstream attempt,
\* and is never forwarded truncated.
C13_BodyCapRejects ==
  /\ (req.bodyLen <= MaxBodySize /\ pc # "start") => body = req.bodyLen
  /\ req.bodyLen > MaxBodySize
       => /\ upstreamCalls = 0
          /\ Returned => result.err = "body_too_large"

\* A terminal client error has been returned: a non-retryable 4xx.
TerminalClientError ==
  /\ Returned
  /\ returnedAt = 468
  /\ result.resp.status >= 400

C17_WaitDuration ==
  pc = "wait"
    => LET m == models[pos[2] + 1]
           p == providers[m.provider]
           interval == IF m.interval > 0 THEN m.interval
                       ELSE IF p.interval > 0 THEN p.interval
                       ELSE retry.DefaultInterval
       IN  /\ totalAttempts = Rank(pos) + 1
           /\ waitDuration = IF retry.ExponentialBackoff
                             THEN interval * (Rank(pos) + 1)
                             ELSE interval

C17_Witness ==
  /\ pc = "wait"
  /\ retry.ExponentialBackoff
  /\ pos[1] >= 1
  /\ pos[2] >= 1
  /\ models[pos[2] + 1].interval = 0
  /\ totalAttempts >= 4
  /\ waitDuration = providers[models[pos[2] + 1].provider].interval
                      * totalAttempts
  /\ waitDuration > totalAttempts

HasDoubleSlash(path) ==
  \E i \in 1..(Len(path) - 1) : path[i] = "/" /\ path[i + 1] = "/"

\* P without its leading /v<digits>, P itself when it has no such prefix.
WithoutVersionPrefix(P) ==
  IF \E k \in 3..Len(P) :
       P[1] = "/" /\ P[2] = "v" /\ \A i \in 3..k : P[i] \in Digits
  THEN LET k == CHOOSE k \in 3..Len(P) :
                  /\ P[1] = "/" /\ P[2] = "v"
                  /\ \A i \in 3..k : P[i] \in Digits
                  /\ (k < Len(P) => P[k + 1] \notin Digits)
       IN  SubSeq(P, k + 1, Len(P))
  ELSE P

\* C18: for every inbound path P and validated base URL B the outgoing URL
\* has B's scheme and host, Host header B.Host, the inbound query, the path
\* B.Path followed by P, without P's leading /v<digits> iff
\* strip_version_prefix, and no "//" anywhere in the path.
C18_TargetURL ==
  (fn.op = "url" /\ fn.done)
    => LET B == ValidatedURL(fn.arg.base)
           P == fn.arg.url.path
       IN  /\ fn.out.scheme = B.scheme
           /\ fn.out.host = B.host
           /\ fn.out.hostHeader = B.host
           /\ fn.out.query = fn.arg.url.query
           /\ fn.out.path = B.path \o (IF fn.arg.strip
                                       THEN WithoutVersionPrefix(P) ELSE P)
           /\ ~HasDoubleSlash(fn.out.path)

\* The provider's api_key as the transport sees it, $NAME resolved.
ResolvedAPIKey ==
  LET v == fn.arg.provider.APIKey
      e == fn.arg.env
  IN  IF v = EnvRef("KEY") /\ e[Str("KEY")] # Str("") THEN e[Str("KEY")]
      ELSE v

\* C19: for openai and unknown dialects Authorization is deleted when the
\* api_key is "-", left as received when it is empty, and Bearer <key>
\* otherwise; for anthropic the same holds of x-api-key, and
\* anthropic-version is 2023-06-01 in all three cases.
C19_AuthHeaders ==
  (fn.op = "auth" /\ fn.done)
    => LET k == ResolvedAPIKey
           in == fn.arg.headers
           out == fn.out.headers
       IN  /\ fn.arg.type \in {"openai", "other"}
                => /\ k = Str("-") => out.Authorization = Absent
                   /\ k = Str("") => out.Authorization = in.Authorization
                   /\ k \notin {Str("-"), Str("")}
                        => out.Authorization = <<"Bearer", k>>
           /\ fn.arg.type = "anthropic"
                => /\ k = Str("-") => out.XApiKey = Absent
                   /\ k = Str("") => out.XApiKey = in.XApiKey
                   /\ k \notin {Str("-"), Str("")} => out.XApiKey = <<k>>
                   /\ out.AnthropicVersion = <<"2023-06-01">>

C19_Witness ==
  /\ fn.op = "auth" /\ fn.done
  /\ fn.arg.type = "anthropic"
  /\ fn.arg.provider.APIKey = Str("")
  /\ fn.arg.headers.XApiKey = <<Str("client")>>
  /\ fn.arg.headers.AnthropicVersion = <<"2023-01-01">>
  /\ fn.out.headers.XApiKey = <<Str("client")>>
  /\ fn.out.headers.AnthropicVersion = <<"2023-06-01">>

\* The outgoing request carries a SigV4 signature.
Signed ==
  /\ fn.out.headers.Authorization # Absent
  /\ fn.out.headers.Authorization[1] = "AWS4-HMAC-SHA256"
  /\ fn.out.headers.XAmzDate # Absent

\* C20: for bedrock the request is signed iff the provider has a non-empty
\* access key id, whatever its api_key; when signing is skipped the request
\* is still dispatched with its headers as they were.
C20_BedrockSigning ==
  (fn.op = "auth" /\ fn.done /\ fn.arg.type = "bedrock")
    => /\ Signed <=> fn.arg.provider.AWSAccessKeyID # Str("")
       /\ ~Signed => /\ fn.out.dispatched
                     /\ fn.out.headers = fn.arg.headers

C20_Witness ==
  /\ fn.op = "auth" /\ fn.done /\ fn.arg.type = "bedrock"
  /\ fn.arg.provider.AWSAccessKeyID = Str("")
  /\ fn.arg.provider.APIKey = Str("sk")
  /\ fn.arg.headers.Authorization = <<"Bearer", Str("client")>>
  /\ fn.out.dispatched
  /\ fn.out.headers = fn.arg.headers

\* C21: a request is streaming iff its path contains /stream or -stream, or
\* its Accept header contains text/event-stream, or its body is JSON with a
\* top-level boolean stream that is true; an empty, absent or invalid body
\* never makes it streaming by itself.
C21_StreamingClassification ==
  (fn.op = "streaming" /\ fn.done)
    => LET path == fn.arg.path
           accept == fn.arg.accept
           b == fn.arg.body
           inPath ==
             \E i \in 1..(Len(path) - 1) :
               path[i] \in {"/", "-"} /\ path[i + 1] = "stream"
           inAccept ==
             \E k \in DOMAIN accept :
               \E i \in DOMAIN accept[k] : accept[k][i] = "text/event-stream"
           inBody ==
             /\ b.kind = "object"
             /\ \E i \in DOMAIN b.fields :
                  b.fields[i].key = "stream" /\ b.fields[i].val = "true"
       IN  /\ fn.out <=> (inPath \/ inAccept \/ inBody)
           /\ (b.kind # "object" /\ ~inPath /\ ~inAccept) => ~fn.out

\* A configuration has been validated, with or without success.
Validated == fn.op = "validate" /\ fn.done

Accepted == Validated /\ fn.out.err = "none"

\* C22: validation succeeds only if all models of every listener have one
\* type; the listener's unified type is then the type of its first model,
\* and two listeners may have different types.
C22_ListenerType ==
  Accepted
    => \A i \in DOMAIN fn.arg.Listeners :
         LET ids == fn.arg.Listeners[i].Models
         IN  /\ \A j, k \in DOMAIN ids :
                  fn.arg.Models[ids[j]].Type = fn.arg.Models[ids[k]].Type
             /\ fn.out.config.Listeners[i].ConfigType
                  = fn.arg.Models[ids[1]].Type

C22_Witness ==
  /\ Accepted
  /\ Len(fn.out.config.Listeners) = 2
  /\ Len(fn.arg.Listeners[1].Models) = 2
  /\ fn.arg.Listeners[1].Models[1] # fn.arg.Listeners[1].Models[2]
  /\ fn.out.config.Listeners[1].ConfigType = "openai"
  /\ fn.out.config.Listeners[2].ConfigType = "anthropic"

\* C23: validation rejects two listeners of one name, two listeners of one
\* host:port, a port outside 1..65535 and a listener without a model; in a
\* validated configuration names and addresses are pairwise distinct and
\* every port is in range.
C23_ListenerRejections ==
  Validated
    => LET ls == fn.arg.Listeners
       IN  /\ (\/ \E i, j \in DOMAIN ls : i # j /\ ls[i].Name = ls[j].Name
               \/ \E i, j \in DOMAIN ls :
                    i # j /\ ls[i].Host = ls[j].Host /\ ls[i].Port = ls[j].Port
               \/ \E i \in DOMAIN ls : ls[i].Port <= 0 \/ ls[i].Port >= 65536
               \/ \E i \in DOMAIN ls : ls[i].Models = <<>>)
                => fn.out.err = "listeners"
           /\ fn.out.err = "none"
                => LET vs == fn.out.config.Listeners
                   IN  /\ \A i, j \in DOMAIN vs :
                            i # j => /\ vs[i].Name # vs[j].Name
                                     /\ <<vs[i].Host, vs[i].Port>>
                                          # <<vs[j].Host, vs[j].Port>>
                       /\ \A i \in DOMAIN vs : vs[i].Port \in 1..65535

C23_Witness ==
  /\ Validated
  /\ fn.out.err = "listeners"
  /\ Len(fn.arg.Listeners) = 2
  /\ fn.arg.Listeners[1].Name = "a" /\ fn.arg.Listeners[2].Name = "b"
  /\ fn.arg.Listeners[1].Port = 65535 /\ fn.arg.Listeners[2].Port = 65535
  /\ fn.arg.Listeners[1].Host = fn.arg.Listeners[2].Host
  /\ fn.arg.Listeners[1].Models # <<>> /\ fn.arg.Listeners[2].Models # <<>>

\* C24: validation rejects every provider whose URL lacks a scheme or a
\* host or has a scheme other than http and https; every accepted provider
\* has a parsed URL, none is left nil, and its path is the configured path
\* without its trailing slashes.
C24_ProviderURLs ==
  Validated
    => LET ps == fn.arg.Providers
       IN  /\ (\E name \in DOMAIN ps :
                 \/ ps[name].URL.scheme = ""
                 \/ ps[name].URL.host = ""
                 \/ ps[name].URL.scheme \notin {"http", "https", "HTTP", "HTTPS"})
                => fn.out.err = "providers"
           /\ fn.out.err = "none"
                => \A name \in DOMAIN ps :
                     LET parsed == fn.out.config.Providers[name].ParsedURL
                         path == ps[name].URL.path
                     IN  /\ parsed # NilURL
                         /\ parsed.host = ps[name].URL.host
                         /\ parsed.scheme \in {"http", "https"}
                         /\ \E k \in 0..Len(path) :
                              /\ parsed.path = SubSeq(path, 1, k)
                              /\ \A i \in (k + 1)..Len(path) : path[i] = "/"
                              /\ k > 0 => path[k] # "/"

C24_Witness ==
  /\ Accepted
  /\ DOMAIN fn.arg.Providers = {"p1", "p2"}
  /\ fn.arg.Providers["p2"].URL.path = <<"/", "a", "/", "/">>
  /\ fn.out.config.Providers["p2"].ParsedURL.path = <<"/", "a">>
  /\ fn.arg.Providers["p1"].URL.scheme = "HTTP"
  /\ fn.out.config.Providers["p1"].ParsedURL.scheme = "http"

\* C25: for a provider used by a bedrock model the credentials are accepted
\* iff access key id and secret access key are both present or both
\* absent and a session token comes only with both.
C25_BedrockCredentials ==
  (Validated /\ fn.arg \in CredentialConfigs
     /\ fn.arg.Models["m1"].Type = "bedrock")
    => LET p == fn.arg.Providers[fn.arg.Models["m1"].Provider]
           hasKey == p.AWSAccessKeyID # Str("")
           hasSecret == p.AWSSecretAccessKey # Str("")
           hasToken == p.AWSSessionToken # Str("")
       IN  /\ fn.out.err \in {"none", "models"}
           /\ fn.out.err = "none"
                <=> \/ hasKey /\ hasSecret
                    \/ ~hasKey /\ ~hasSecret /\ ~hasToken

C25_Witness ==
  /\ Validated /\ fn.arg \in CredentialConfigs
  /\ fn.arg.Models["m1"].Type = "bedrock"
  /\ fn.arg.Providers["p1"].AWSAccessKeyID = Str("")
  /\ fn.arg.Providers["p1"].AWSSecretAccessKey = Str("")
  /\ fn.arg.Providers["p1"].AWSSessionToken = Str("token")
  /\ fn.out.err = "models"

\* C26: after a successful validation every listener's resolved chain has
\* the length and the order of its model ids, its element k is the
\* defaulted binding registered under id k, and every binding of every
\* chain references a provider of the provider map.
C26_ResolvedChains ==
  Accepted
    => \A i \in DOMAIN fn.out.config.Listeners :
         LET l == fn.out.config.Listeners[i]
         IN  /\ l.Models = fn.arg.Listeners[i].Models
             /\ Len(l.ResolvedModels) = Len(l.Models)
             /\ \A k \in DOMAIN l.Models :
                  /\ l.Models[k] \in DOMAIN fn.out.config.Models
                  /\ l.ResolvedModels[k] = fn.out.config.Models[l.Models[k]]
                  /\ l.ResolvedModels[k].ID = l.Models[k]
                  /\ l.ResolvedModels[k].Model = fn.arg.Models[l.Models[k]].Model
                  /\ l.ResolvedModels[k].Provider
                       \in DOMAIN fn.out.config.Providers

C26_Witness ==
  /\ Accepted
  /\ Len(fn.out.config.Listeners) = 2
  /\ fn.out.config.Listeners[2].Models = <<"m3", "m1">>
  /\ Len(fn.out.config.Listeners[2].ResolvedModels) = 2
  /\ fn.out.config.Listeners[2].ResolvedModels[1].Model = "gpt-mini"
  /\ fn.out.config.Listeners[2].ResolvedModels[2].ID = "m1"
  /\ fn.arg.Models["m1"].Attempts = 0
  /\ fn.out.config.Listeners[2].ResolvedModels[2].Attempts = 1

\* C27: after a successful validation every model binding, in the model
\* map and in every resolved chain, has attempts >= 1 (a configured value
\* <= 0 becomes 1, a positive one is kept) and a configured timeout of 0 has
\* become retry.default_timeout; a model with an empty name, an empty type
\* or a type other than openai, anthropic and bedrock is rejected.
C27_ModelDefaults ==
  Validated
    => /\ (\E id \in DOMAIN fn.arg.Models :
             \/ fn.arg.Models[id].Model = ""
             \/ fn.arg.Models[id].Type \notin {"openai", "anthropic", "bedrock"})
            => fn.out.err \in {"providers", "models"}
       /\ fn.out.err = "none"
            => /\ \A id \in DOMAIN fn.out.config.Models :
                    LET configured == fn.arg.Models[id]
                        m == fn.out.config.Models[id]
                    IN  /\ m.Attempts >= 1
                        /\ configured.Attempts <= 0 => m.Attempts = 1
                        /\ configured.Attempts > 0
                             => m.Attempts = configured.Attempts
                        /\ configured.Timeout = 0
                             => m.Timeout = fn.arg.Retry.DefaultTimeout
               /\ \A i \in DOMAIN fn.out.config.Listeners :
                    \A k \in DOMAIN fn.out.config.Listeners[i].ResolvedModels :
                      fn.out.config.Listeners[i].ResolvedModels[k].Attempts >= 1

C27_Witness ==
  /\ Accepted
  /\ fn.arg.Models["m1"].Attempts = -1
  /\ fn.arg.Models["m1"].Timeout = 0
  /\ fn.arg.Retry.DefaultTimeout = 1
  /\ fn.out.config.Models["m1"].Attempts = 1
  /\ fn.out.config.Models["m1"].Timeout = 1
  /\ fn.out.config.Listeners[1].ResolvedModels[1].Attempts = 1

\* C28: resolution of v returns the value of the variable NAME exactly
\* when v is $ followed by a non-empty NAME and the variable is set to a
\* non-empty value; otherwise it returns v; resolving v again under the
\* same environment gives the same result.
C28_EnvResolution ==
  (fn.op = "resolve" /\ fn.done)
    => LET v == fn.arg.v
           env == fn.arg.env
           name == SubSeq(v, 2, Len(v))
           isSet == /\ Len(v) >= 2 /\ v[1] = "$"
                    /\ name \in DOMAIN env /\ env[name] # <<>>
       IN  /\ isSet => fn.out.first = env[name]
           /\ ~isSet => fn.out.first = v
           /\ fn.out.second = fn.out.first

C28_Witness ==
  /\ fn.op = "resolve" /\ fn.done
  /\ fn.arg.v = <<"$", "KEY", "a">>
  /\ DOMAIN fn.arg.env = {<<"KEY">>, <<"KEY", "a">>}
  /\ fn.arg.env[<<"KEY">>] = <<"value">>
  /\ fn.arg.env[<<"KEY", "a">>] = <<"$", "KEY">>
  /\ fn.out.first = <<"$", "KEY">>

\* The fields of a body without its model fields.
RECURSIVE OtherFields(_)
OtherFields(fields) ==
  IF fields = <<>> THEN <<>>
  ELSE IF fields[1].key = "model" THEN OtherFields(Tail(fields))
  ELSE <<fields[1]>> \o OtherFields(Tail(fields))

\* C29: the override sets the top-level model field to the binding's name
\* and keeps every other field; set_model(set_model(b, m1), m2) equals
\* set_model(b, m2); a nil or empty body becomes {"model": m}.
C29_SetModelLastWins ==
  (fn.op = "setModel" /\ fn.done)
    => LET b == fn.arg.body
           out == fn.out.once.body
       IN  /\ ~fn.out.once.err /\ ~fn.out.twice.err
           /\ fn.out.twice.body = out
           /\ out.kind = "object"
           /\ \E i \in DOMAIN out.fields :
                /\ out.fields[i] = [key |-> "model", val |-> fn.arg.m2]
                /\ \A j \in DOMAIN out.fields :
                     j # i => out.fields[j].key # "model"
           /\ OtherFields(out.fields) = OtherFields(b.fields)
           /\ b.kind \in {"nil", "empty"}
                => out.fields = <<[key |-> "model", val |-> fn.arg.m2]>>

C29_Witness ==
  /\ fn.op = "setModel" /\ fn.done
  /\ fn.arg.m1 # fn.arg.m2
  /\ fn.arg.body.kind = "object"
  /\ Len(fn.arg.body.fields) = 2
  /\ fn.arg.body.fields[1].key = "stream"
  /\ fn.arg.body.fields[2].key = "messages"
  /\ fn.out.twice.body.fields[3] = [key |-> "model", val |-> fn.arg.m2]
  /\ Len(fn.out.twice.body.fields) = 3

\* The default of a field: its value when the configured one is zero.
Filled(configured, zero, default) ==
  IF configured = zero THEN default ELSE configured

\* C30: applying defaults fills the fields that are zero (log level,
\* max_cycles, default timeout, default interval, listener host, read and
\* write timeouts), leaves every field that is not zero unchanged, and
\* applied twice gives what it gives applied once.
C30_DefaultsFillZeroOnly ==
  (fn.op = "defaults" /\ fn.done)
    => LET c == fn.arg
           d == fn.out.once
       IN  /\ d.Log.Level = Filled(c.Log.Level, "", "info")
           /\ d.Retry.MaxCycles = Filled(c.Retry.MaxCycles, 0, 10)
           /\ d.Retry.DefaultTimeout = Filled(c.Retry.DefaultTimeout, 0, 30)
           /\ d.Retry.DefaultInterval = Filled(c.Retry.DefaultInterval, 0, 100)
           /\ d.Providers = c.Providers /\ d.Models = c.Models
           /\ Len(d.Listeners) = Len(c.Listeners)
           /\ \A i \in DOMAIN c.Listeners :
                /\ d.Listeners[i].Host
                     = Filled(c.Listeners[i].Host, "", "127.0.0.1")
                /\ d.Listeners[i].ReadTimeout
                     = Filled(c.Listeners[i].ReadTimeout, 0, 60)
                /\ d.Listeners[i].WriteTimeout
                     = Filled(c.Listeners[i].WriteTimeout, 0, 600)
                /\ d.Listeners[i].Name = c.Listeners[i].Name
                /\ d.Listeners[i].Port = c.Listeners[i].Port
                /\ d.Listeners[i].Models = c.Listeners[i].Models
           /\ fn.out.twice = d

C30_Witness ==
  /\ fn.op = "defaults" /\ fn.done
  /\ fn.arg.Retry.MaxCycles = -1 /\ fn.out.once.Retry.MaxCycles = -1
  /\ fn.arg.Retry.DefaultTimeout = 0 /\ fn.out.once.Retry.DefaultTimeout = 30
  /\ fn.arg.Log.Level = "" /\ fn.out.once.Log.Level = "info"
  /\ Len(fn.arg.Listeners) = 2
  /\ fn.arg.Listeners[1].Host = "" /\ fn.out.once.Listeners[1].Host = "127.0.0.1"
  /\ fn.arg.Listeners[2].Host = "0.0.0.0"
  /\ fn.out.once.Listeners[2].Host = "0.0.0.0"
  /\ fn.arg.Listeners[2].WriteTimeout = -1
  /\ fn.out.once.Listeners[2].WriteTimeout = -1

\* C31: when RoundTrip returns an error (the context's, an attempt's, or
\* the fixed 'all attempts exhausted'), the proxy answers the client with
\* 502 Bad Gateway and the error text, never with a 2xx status.
C31_ErrorAnswered502 ==
  (Returned /\ result.err # "none" /\ answer # NoAnswer)
    => /\ answer.status = 502
       /\ answer.text = <<"proxy error: ", result.err>>
       /\ ~(answer.status >= 200 /\ answer.status < 300)

C31_Witness ==
  /\ Returned /\ answer.status = 502
  /\ result.err = "canceled"
  /\ lastResp.status = 500

\* The wait that follows the attempt at the current loop position.
IntervalOfCurrentModel ==
  GetInterval(models[pos[2] + 1],
              ProviderOf(providers, models[pos[2] + 1].provider),
              retry.DefaultInterval)

\* The latest attempt ended in an attempt error or a retryable status.
LastAttemptRetryable ==
  /\ lastOutcome.attempt = totalAttempts
  /\ lastOutcome.status = -1 \/ RetryableStatus(lastOutcome.status)

\* No attempt of the call ended in a terminal result.
NoTerminalAttempt == returnedAt # 468

\* One wait after every attempt that ended in an attempt error or a
\* retryable status, taken with the interval of the model just tried.
WaitsFollowAttempts ==
  /\ pc = "wait"
       => /\ LastAttemptRetryable
          /\ waits = totalAttempts
          /\ waitDuration = WaitDuration(IntervalOfCurrentModel, totalAttempts,
                                         retry.ExponentialBackoff)
  /\ pc = "top" => waits = totalAttempts
  /\ pc = "inflight" => waits = totalAttempts - 1
  /\ (Returned /\ returnedAt \in {468, 474, 477})
       => waits = totalAttempts - 1

\* C32 as stated: one wait, with the effective interval of the model just
\* tried, after every attempt that ended in an attempt error or a retryable
\* status, none after the last attempt of the last model in the last cycle,
\* none after a terminal result; so a call whose attempts are all retryable
\* performs (number of attempts - 1) waits.
C32_WaitsBetweenAttempts ==
  /\ WaitsFollowAttempts
  /\ (Returned /\ NoTerminalAttempt /\ totalAttempts >= 1)
       => waits = totalAttempts - 1

\* C32, amended: the same waits; a call that runs its loops to the end with
\* every attempt retryable performs (number of attempts - 1) waits, and a
\* call that returns the context's error at the top of an iteration has
\* performed as many waits as attempts.
C32_WaitsUnlessCancelled ==
  /\ WaitsFollowAttempts
  /\ (Returned /\ NoTerminalAttempt /\ returnedAt # 398)
       => /\ waits = totalAttempts - 1
          /\ totalAttempts = AttemptBudget
  /\ (Returned /\ returnedAt = 398) => waits = totalAttempts

C32_Witness ==
  /\ Returned /\ NoTerminalAttempt /\ ctxErr = "none"
  /\ Len(models) = 2 /\ maxCycles = 2
  /\ totalAttempts >= 4 /\ waits = totalAttempts - 1
  /\ waitDuration > MaxDuration
  /\ lastErr # "none" /\ lastResp # NoResp

\* The attempt about to start cannot be sent: its provider id is not in
\* the provider map, or the model override fails on the buffered body.
CannotBeSent ==
  \/ models[pos[2] + 1].provider \notin DOMAIN providers
  \/ setModel(req.json, models[pos[2] + 1].model).err

\* The current loop position is the last attempt of the last model in the
\* last cycle.
AtLastPosition ==
  /\ pos[1] = maxCycles - 1
  /\ pos[2] = Len(models) - 1
  /\ pos[3] = models[pos[2] + 1].attempts - 1

\* C33: an attempt whose provider id is missing from the provider map, or
\* whose model override fails, sends nothing upstream, counts as one
\* attempt, is recorded as the last error, is followed by the normal wait,
\* and ends the call only by being the last iteration of the loops.
C33_FailedAttemptAdvances ==
  [][ (pc = "top" /\ totalAttempts' = totalAttempts + 1 /\ CannotBeSent)
        => /\ upstreamCalls' = upstreamCalls
           /\ pc' # "inflight"
           /\ lastErr' = IF models[pos[2] + 1].provider \notin DOMAIN providers
                         THEN "provider_not_found" ELSE "set_model"
           /\ lastResp' = lastResp
           /\ pos' = pos
           /\ IF AtLastPosition
              THEN /\ pc' = "done"
                   /\ waits' = waits
                   /\ returnedAt' \in {474, 477}
              ELSE /\ pc' = "wait"
                   /\ waits' = waits + 1
                   /\ result' = NoResult ]_vars

C33_Witness ==
  /\ pc = "wait"
  /\ lastErr = "provider_not_found"
  /\ lastResp.status = 500
  /\ totalAttempts = 2 /\ upstreamCalls = 1 /\ waits = 2

\* C34: within one RoundTrip at most one upstream request is in flight:
\* an attempt is dispatched only when no request is in flight and, if an
\* attempt came before, that attempt has returned, has been classified,
\* and the wait that followed it has ended.
C34_OneInFlight ==
  [][ /\ inFlight' \in {0, 1}
      /\ (inFlight' = 1) = (pc' = "inflight")
      /\ (upstreamCalls' = upstreamCalls + 1)
           => /\ inFlight = 0 /\ pc = "top"
              /\ totalAttempts >= 1
                   => /\ lastOutcome.attempt = totalAttempts
                      /\ (lastOutcome.status = -1
                            \/ RetryableStatus(lastOutcome.status))
                      /\ waits = totalAttempts ]_vars

C34_Witness ==
  /\ pc = "inflight" /\ inFlight = 1
  /\ upstreamCalls = 3 /\ waits = 2
  /\ lastOutcome = [attempt |-> 2, status |-> 500]

\* C36: every retryable response has its body closed before the next
\* attempt or wait starts, with or without include_error_body; when
\* RoundTrip has returned, every response received during the call other
\* than the returned one has a closed body.
C36_RetryableBodiesClosed ==
  /\ pc \in {"top", "inflight", "wait"}
       => /\ openBodies = 0
          /\ lastResp # NoResp => lastResp.body = "closed"
  /\ Returned
       => /\ openBodies = Unclosed(result.resp)
          /\ lastResp # NoResp => lastResp.body = "closed"

C36_Witness ==
  /\ Returned /\ returnedAt = 468
  /\ logConfig.IncludeErrorBody
  /\ result.resp.status = 200 /\ result.resp.body = "upstream"
  /\ lastResp.status = 500 /\ lastResp.body = "closed"
  /\ totalAttempts = 3 /\ openBodies = 1

\* C37: every response that RoundTrip returns, the last retryable response
\* returned after exhaustion included, has a body that the transport has
\* not closed: the untouched upstream body or a fresh in-memory reader.
C37_ReturnedBodyOpen ==
  (Returned /\ result.resp # NoResp)
    => /\ result.resp.body \in {"upstream", "memory"}
       /\ result.resp.body = "upstream" => ~result.resp.read

\* The model and the provider of the attempt at the current loop position.
CurrentModel == models[pos[2] + 1]

CurrentProvider == providers[CurrentModel.provider]

\* C38: the request body is buffered once per RoundTrip and every attempt
\* is sent set_model(buffered body, that attempt's model name), whatever
\* the earlier attempts and their models were; every rewrite goes to a
\* per-attempt clone, so the URL, the Host and the headers of the original
\* request are the same after RoundTrip as before.
C38_RewritesOnClone ==
  [][ /\ req'.url = req.url
      /\ req'.host = req.host
      /\ req'.headers = req.headers
      /\ pc = "start" => buffered' = req.json
      /\ pc # "start" => buffered' = buffered
      /\ (upstreamCalls' = upstreamCalls + 1)
           => /\ sent'.json = setModel(req.json, CurrentModel.model).body
              /\ FirstField(sent'.json.fields, "model") > 0
              /\ sent'.json.fields[FirstField(sent'.json.fields, "model")].val
                   = CurrentModel.model
              /\ sent'.url.host = CurrentProvider.ParsedURL.host
              /\ sent'.host = CurrentProvider.ParsedURL.host
              /\ sent'.url.path =
                   buildTargetURL(req.url, CurrentProvider).path
              /\ sent'.headers =
                   setAuthHeaders(req.headers, CurrentModel.type,
                                  CurrentProvider, ProcessEnv) ]_vars

C38_Witness ==
  /\ pc = "inflight" /\ totalAttempts = 2
  /\ models[1].model = "gpt" /\ models[2].model = "claude"
  /\ models[1].type = "openai" /\ models[2].type = "bedrock"
  /\ req.json.kind = "object"
  /\ buffered.fields[1] = [key |-> "model", val |-> "old"]
  /\ sent.json.fields[1] = [key |-> "model", val |-> "claude"]
  /\ sent.host = "api.example.com" /\ req.host = "localhost"
  /\ sent.headers # req.headers
  /\ sent.url.path # req.url.path

\* The chain runs no attempt: it is empty or every model has attempts <= 0.
NoAttemptConfigured == \A i \in DOMAIN models : models[i].attempts <= 0

\* C39: the fixed 'all attempts exhausted' error is returned only when no
\* attempt of the call produced a response or an error; it is returned
\* exactly when the chain is empty or every model has attempts <= 0, so
\* never for a chain with a model of attempts >= 1.
C39_ExhaustedOnlyWithoutAttempts ==
  Returned
    => /\ (result.err = "exhausted") = NoAttemptConfigured
       /\ result.err = "exhausted"
            => /\ totalAttempts = 0 /\ upstreamCalls = 0
               /\ lastOutcome = NoOutcome
               /\ lastResp = NoResp /\ lastErr = "none"
               /\ result.resp = NoResp
       /\ (\E i \in DOMAIN models : models[i].attempts >= 1)
            => result.err # "exhausted"

C39_Witness ==
  /\ Returned /\ result.err = "exhausted"
  /\ Len(models) = 2
  /\ models[1].attempts = 0 /\ models[2].attempts = -1
  /\ retry.MaxCycles = 2

\* What one call's locals say when nothing but the call itself, the
\* transport's configuration and its own upstream answers acted on them:
\* the attempts made are those of its own loop position, its result is the
\* one its own records give, and a context error appears in it only when
\* its own context fired.
CallOnItsOwn(c) ==
  /\ c.pc \in {"inflight", "wait"} => c.totalAttempts = Rank(c.pos) + 1
  /\ c.pc = "top" => c.totalAttempts = Rank(c.pos)
  /\ c.upstreamCalls = c.totalAttempts
  /\ (c.inFlight = 1) = (c.pc = "inflight")
  /\ c.ctxErr = "none"
       => /\ c.returnedAt # 398
          /\ c.abortedAttempt = 0
          /\ c.lastErr \notin {"canceled", "deadline_exceeded"}
          /\ c.result.err \notin {"canceled", "deadline_exceeded"}
  /\ c.returnedAt \in {474, 477}
       => /\ c.result = FinalResult(c.lastResp, c.lastErr)
          /\ c.totalAttempts = AttemptBudget
  /\ c.returnedAt = 468
       => /\ c.result.resp.status = c.lastOutcome.status
          /\ c.lastOutcome.attempt = c.totalAttempts

\* C35: two RoundTrip calls running concurrently on one transport do not
\* interfere: a step of one call leaves the other's total_attempts, last
\* error, last response and every other local as they were, also when it
\* is a cancellation; RoundTrip never writes the transport's models,
\* providers and retry policy; and under every interleaving each call's
\* attempts and result are those it has on its own.
C35_CallsDoNotInterfere ==
  [][ /\ models' = models /\ providers' = providers /\ retry' = retry
      /\ logConfig' = logConfig
      /\ turn' = turn => other' = other
      /\ turn' # turn => (other' = Locals /\ Locals' = other)
      /\ CallOnItsOwn(Locals')
      /\ CallOnItsOwn(other') ]_vars

C35_Witness ==
  /\ turn = 2
  /\ pc = "inflight" /\ totalAttempts = 2 /\ ctxErr = "none"
  /\ lastErr = "dispatch" /\ lastResp = NoResp
  /\ other.pc = "wait" /\ other.totalAttempts = 1
  /\ other.ctxErr = "canceled"
  /\ other.lastResp.status = 429 /\ other.lastErr = "none"
====
